---- MODULE Spec2Model ----
(***************************************************************************)
(* Execution core of the trading platform: the Order state machine         *)
(* (order.pyx), the in-memory execution database and the execution engine  *)
(* (execution.pyx).  The database is one record `db` holding the owning    *)
(* stores and every index; the engine's handlers are functions on a        *)
(* "world" record so that one action is one whole call of execute_command  *)
(* or handle_event, nested calls included.                                 *)
(* The clock (clock.pyx: Timer, TestTimer, LiveTimer, Clock, TestClock,    *)
(* LiveClock) is one record `clock`; SpecClock takes each clock operation  *)
(* as one call, SpecLive interleaves cancel_timer on the caller's thread   *)
(* with a firing on the scheduler thread.                                  *)
(***************************************************************************)
EXTENDS Integers, Sequences, FiniteSets, TLC

\* ------------------------------------------------------------------ bounds
MaxQty == 2
MaxPrice == 2
MaxSteps == 4
MaxLog == 4
MaxBalance == 2
MaxStamp == 1
MaxLogSteps == 3

\* ------------------------------------------------------------- identifiers
OrderIds == {1, 2, 3}
StrategyIds == {"S1", "S2"}
PositionIds == {"P1", "P2"}
AccountIds == {"A1", "A2"}
None == "None"

Quantities == 1..MaxQty
Balances == 1..MaxBalance
Prices == 1..MaxPrice
Timestamps == 0..MaxStamp

VARIABLES
    db,                     \* InMemoryExecutionDatabase: stores and indexes
    registered_strategies,  \* ExecutionEngine._registered_strategies (its keys)
    command_count,          \* ExecutionEngine.command_count
    event_count,            \* ExecutionEngine.event_count
    returns,                \* portfolio.analyzer: add_return calls per position id
    delivered,              \* strategy.handle_event calls made by the last operation
    ever_registered,        \* history: every strategy id register_strategy accepted
    steps,                  \* number of engine operations performed so far
    last,                   \* the last operation: what was called and what it did
    account,                \* ExecutionEngine.account
    transactions,           \* portfolio.handle_transaction calls made so far
    closed_by_fill,         \* history: the positions some applied fill has closed
    lone_order,             \* a free-standing Order, as the OrderFactory returns it
    clock,                  \* a Clock (TestClock or LiveClock) and its timers
    clock_last,             \* the last clock operation: its arguments and result
    threads                 \* LiveClock: where the caller and the scheduler thread are

vars == <<db, registered_strategies, command_count, event_count, returns,
          delivered, ever_registered, steps, last, account, transactions,
          closed_by_fill, lone_order, clock, clock_last, threads>>

\* ------------------------------------------------------------------ events
\* Order events that carry no payload beyond (order_id, account_id).
PlainOrderKinds ==
    {"OrderInvalid", "OrderDenied", "OrderSubmitted", "OrderAccepted",
     "OrderRejected", "OrderWorking", "OrderCancelled", "OrderExpired",
     "OrderCancelReject"}

\* quantity is modified_quantity (OrderModified) or filled_quantity
\* (OrderFillEvent); price is the fill's average_price.
OrderEvent(kind, order_id, account_id, quantity, price) ==
    [kind |-> kind, order_id |-> order_id, account_id |-> account_id,
     quantity |-> quantity, price |-> price, timestamp |-> 0]

\* The same event with the timestamp its sender has put on it.
At(event, timestamp) == [event EXCEPT !.timestamp = timestamp]

OrderEventsOf(order_ids, account_ids, prices) ==
    {OrderEvent(k, o, a, 0, 0) : k \in PlainOrderKinds, o \in order_ids, a \in account_ids}
    \cup {OrderEvent("OrderModified", o, a, q, 0) :
            o \in order_ids, a \in account_ids, q \in Quantities}
    \cup {OrderEvent("OrderFill", o, a, q, p) :
            o \in order_ids, a \in account_ids, q \in Quantities, p \in prices}

\* The events applied to a free-standing order: every kind, its own and a
\* foreign order id, both accounts, every fill price.
OrderEvents == OrderEventsOf({1, 2}, AccountIds, Prices)

\* The events the execution client hands to the engine: every kind for
\* every order id and account, at one fill price.
EngineOrderEvents == OrderEventsOf(OrderIds, AccountIds, {1})

PositionEventKinds == {"PositionOpened", "PositionModified", "PositionClosed"}

PositionEvent(kind, position_id, strategy_id) ==
    [kind |-> kind, position_id |-> position_id, strategy_id |-> strategy_id]

PositionEvents ==
    {PositionEvent(k, p, s) : k \in PositionEventKinds, p \in PositionIds, s \in StrategyIds}

\* ------------------------------------------------------------------- Order
\* Order.__init__: a fresh order is INITIALIZED, neither working nor
\* completed, nothing filled, and its log holds the OrderInitialized event.
Order(order_id, side, quantity) ==
    [id |-> order_id, side |-> side, quantity |-> quantity,
     state |-> "INITIALIZED", is_working |-> FALSE, is_completed |-> FALSE,
     filled_quantity |-> 0, average_price |-> 0, account_id |-> None,
     event_count |-> 1, events |-> <<0>>,
     last_event |-> OrderEvent("OrderInitialized", order_id, None, quantity, 0)]

set_is_working_true(order) ==
    [order EXCEPT !.is_working = TRUE, !.is_completed = FALSE]

\* Fault injection for _set_is_completed_true: is_working is left as it was.
set_is_completed_true_keeps_working(order) ==
    [order EXCEPT !.is_completed = TRUE]

set_is_completed_true(order) ==
    [order EXCEPT !.is_working = FALSE, !.is_completed = TRUE]

set_filled_state(order) ==
    IF order.filled_quantity < order.quantity
    THEN [order EXCEPT !.state = "PARTIALLY_FILLED"]
    ELSE IF order.filled_quantity = order.quantity
    THEN [order EXCEPT !.state = "FILLED"]
    ELSE [order EXCEPT !.state = "OVER_FILLED"]

\* Fault injection for Order.apply: the account id of the event is not
\* compared with the order's.
apply_accepts_any_account(order, event) ==
    order.id = event.order_id

\* The two Condition checks at the head of Order.apply.
apply_accepts(order, event) ==
    /\ order.id = event.order_id
    /\ (order.account_id # None => order.account_id = event.account_id)

\* Fault injection for apply_fill: the fill quantity is added to what was
\* filled before instead of being assigned.
apply_fill_accumulates(order, event) ==
    LET assigned == [order EXCEPT !.filled_quantity = @ + event.quantity,
                                  !.average_price = event.price]
        filled == set_filled_state(assigned)
    IN  IF filled.state = "FILLED" THEN set_is_completed_true(filled) ELSE filled

\* The fill branch of Order.apply: the event's filled_quantity and
\* average_price are assigned, not accumulated.
apply_fill(order, event) ==
    LET assigned == [order EXCEPT !.filled_quantity = event.quantity,
                                  !.average_price = event.price]
        filled == set_filled_state(assigned)
    IN  IF filled.state = "FILLED" THEN set_is_completed_true(filled) ELSE filled

\* Fault injection for the OrderModified branch: the filled sub-state is
\* evaluated again against the new quantity.
apply_modified_reevaluates(order, event) ==
    set_filled_state([order EXCEPT !.quantity = event.quantity])

\* The OrderModified branch of Order.apply: the quantity is overwritten
\* (the price and the broker id are not modelled).
apply_modified(order, event) ==
    [order EXCEPT !.quantity = event.quantity]

\* Order.apply: a failed Condition raises before anything is written.
apply(order, event) ==
    IF ~apply_accepts(order, event) THEN order
    ELSE
    LET logged == [order EXCEPT !.events = Append(@, event.timestamp),
                                !.last_event = event, !.event_count = @ + 1]
        kind == event.kind
    IN  CASE kind = "OrderInvalid" ->
                set_is_completed_true([logged EXCEPT !.state = "INVALID"])
          [] kind = "OrderDenied" ->
                set_is_completed_true([logged EXCEPT !.state = "DENIED"])
          [] kind = "OrderSubmitted" ->
                [logged EXCEPT !.state = "SUBMITTED", !.account_id = event.account_id]
          [] kind = "OrderRejected" ->
                set_is_completed_true([logged EXCEPT !.state = "REJECTED"])
          [] kind = "OrderAccepted" ->
                [logged EXCEPT !.state = "ACCEPTED"]
          [] kind = "OrderWorking" ->
                set_is_working_true([logged EXCEPT !.state = "WORKING"])
          [] kind = "OrderCancelled" ->
                set_is_completed_true([logged EXCEPT !.state = "CANCELLED"])
          [] kind = "OrderExpired" ->
                set_is_completed_true([logged EXCEPT !.state = "EXPIRED"])
          [] kind = "OrderModified" ->
                apply_modified(logged, event)
          [] kind = "OrderFill" ->
                apply_fill(logged, event)
          [] OTHER -> logged

\* ---------------------------------------------------------------- Position
\* Position(position_id, fill) and Position.apply(fill): the net quantity of
\* the fills applied, signed by the side of the filled order; the position
\* is closed when the net quantity is zero.
signed_quantity(side, quantity) ==
    IF side = "BUY" THEN quantity ELSE 0 - quantity

Position(position_id, side, event) ==
    [id |-> position_id, quantity |-> signed_quantity(side, event.quantity),
     is_closed |-> FALSE]

position_apply(position, side, event) ==
    LET net == position.quantity + signed_quantity(side, event.quantity)
    IN  [position EXCEPT !.quantity = net, !.is_closed = (net = 0)]

\* ---------------------------------------------------------------- database
EmptyMap == [x \in {} |-> None]

Put(f, k, v) == [x \in DOMAIN f \cup {k} |-> IF x = k THEN v ELSE f[x]]

Remove(f, k) == [x \in DOMAIN f \ {k} |-> f[x]]

\* set-valued index: f[k] = {v} when k is new, else f[k].add(v)
AddTo(f, k, v) == Put(f, k, IF k \in DOMAIN f THEN f[k] \cup {v} ELSE {v})

\* InMemoryExecutionDatabase.__init__ (and ExecutionDatabase.__init__)
EmptyDb ==
    [cached_orders |-> EmptyMap, cached_positions |-> EmptyMap,
     strategies |-> {},
     index_order_position |-> EmptyMap, index_order_strategy |-> EmptyMap,
     index_position_strategy |-> EmptyMap, index_position_orders |-> EmptyMap,
     index_strategy_orders |-> EmptyMap, index_strategy_positions |-> EmptyMap,
     index_orders |-> {}, index_orders_working |-> {}, index_orders_completed |-> {},
     index_positions |-> {}, index_positions_open |-> {}, index_positions_closed |-> {}]

add_strategy_accepts(d, strategy_id) == strategy_id \notin d.strategies

add_strategy(d, strategy_id) ==
    IF ~add_strategy_accepts(d, strategy_id) THEN d
    ELSE [d EXCEPT !.strategies = @ \cup {strategy_id}]

\* The four Condition.not_in checks at the head of add_order.
add_order_accepts(d, order_id) ==
    /\ order_id \notin DOMAIN d.cached_orders
    /\ order_id \notin d.index_orders
    /\ order_id \notin DOMAIN d.index_order_strategy
    /\ order_id \notin DOMAIN d.index_order_position

\* The assert on the position -> strategy index, reached after the order is
\* already in the store and in the order indexes.
add_order_asserts(d, strategy_id, position_id) ==
    position_id \in DOMAIN d.index_position_strategy
        => strategy_id = d.index_position_strategy[position_id]

\* add_order up to the assert (lines 301-305).
add_order_store(d, order, strategy_id, position_id) ==
    [d EXCEPT !.cached_orders = Put(@, order.id, order),
              !.index_orders = @ \cup {order.id},
              !.index_order_strategy = Put(@, order.id, strategy_id),
              !.index_order_position = Put(@, order.id, position_id)]

\* add_order from the position -> strategy index on (lines 307-329).
add_order_index(d, order, strategy_id, position_id) ==
    [d EXCEPT !.index_position_strategy =
                  IF position_id \in DOMAIN @ THEN @ ELSE Put(@, position_id, strategy_id),
              !.index_position_orders = AddTo(@, position_id, order.id),
              !.index_strategy_orders = AddTo(@, strategy_id, order.id),
              !.index_strategy_positions = AddTo(@, strategy_id, position_id)]

add_order_ok(d, order, strategy_id, position_id) ==
    /\ add_order_accepts(d, order.id)
    /\ add_order_asserts(d, strategy_id, position_id)

\* The database add_order leaves behind, whether it returns or raises.
add_order(d, order, strategy_id, position_id) ==
    IF ~add_order_accepts(d, order.id) THEN d
    ELSE LET stored == add_order_store(d, order, strategy_id, position_id)
         IN  IF ~add_order_asserts(d, strategy_id, position_id) THEN stored
             ELSE add_order_index(stored, order, strategy_id, position_id)

add_position_accepts(d, position_id) ==
    /\ position_id \notin DOMAIN d.cached_positions
    /\ position_id \notin d.index_positions
    /\ position_id \notin d.index_positions_open

\* Fault injection for add_position: the position is indexed but never
\* put into the store.
add_position_no_store(d, position, strategy_id) ==
    IF ~add_position_accepts(d, position.id) THEN d
    ELSE [d EXCEPT !.index_positions = @ \cup {position.id},
                   !.index_positions_open = @ \cup {position.id}]

add_position(d, position, strategy_id) ==
    IF ~add_position_accepts(d, position.id) THEN d
    ELSE [d EXCEPT !.cached_positions = Put(@, position.id, position),
                   !.index_positions = @ \cup {position.id},
                   !.index_positions_open = @ \cup {position.id}]

\* Fault injection for update_order: the id is added to its partition and
\* not discarded from the other one.
update_order_no_discard(d, order) ==
    IF order.is_working
    THEN [d EXCEPT !.index_orders_working = @ \cup {order.id}]
    ELSE IF order.is_completed
    THEN [d EXCEPT !.index_orders_completed = @ \cup {order.id}]
    ELSE d

update_order(d, order) ==
    IF order.is_working
    THEN [d EXCEPT !.index_orders_working = @ \cup {order.id},
                   !.index_orders_completed = @ \ {order.id}]
    ELSE IF order.is_completed
    THEN [d EXCEPT !.index_orders_completed = @ \cup {order.id},
                   !.index_orders_working = @ \ {order.id}]
    ELSE d

update_position(d, position) ==
    IF position.is_closed
    THEN [d EXCEPT !.index_positions_closed = @ \cup {position.id},
                   !.index_positions_open = @ \ {position.id}]
    ELSE d

delete_strategy_accepts(d, strategy_id) == strategy_id \in d.strategies

delete_strategy(d, strategy_id) ==
    IF ~delete_strategy_accepts(d, strategy_id) THEN d
    ELSE [d EXCEPT !.strategies = @ \ {strategy_id},
                   !.index_strategy_orders = Remove(@, strategy_id),
                   !.index_strategy_positions = Remove(@, strategy_id)]

\* Fault injection for reset: the working partition is not cleared.
reset_keeps_working(d) ==
    [EmptyDb EXCEPT !.index_orders_working = d.index_orders_working]

\* Fault injection for reset: the strategies set is not cleared.
reset_keeps_strategies(d) ==
    [EmptyDb EXCEPT !.strategies = d.strategies]

\* reset clears the strategies set and every index, then _reset clears the
\* two owning stores.
reset(d) ==
    [d EXCEPT !.strategies = {},
              !.index_order_position = EmptyMap,
              !.index_order_strategy = EmptyMap,
              !.index_position_strategy = EmptyMap,
              !.index_position_orders = EmptyMap,
              !.index_strategy_orders = EmptyMap,
              !.index_strategy_positions = EmptyMap,
              !.index_orders = {},
              !.index_orders_working = {},
              !.index_orders_completed = {},
              !.index_positions = {},
              !.index_positions_open = {},
              !.index_positions_closed = {},
              !.cached_orders = EmptyMap,
              !.cached_positions = EmptyMap]

get_strategy_for_order(d, order_id) ==
    IF order_id \in DOMAIN d.index_order_strategy
    THEN d.index_order_strategy[order_id] ELSE None

get_position_id(d, order_id) ==
    IF order_id \in DOMAIN d.index_order_position
    THEN d.index_order_position[order_id] ELSE None

\* ----------------------------------------------------------------- Account
\* The account the engine is constructed with: not initialized, no id.
Account ==
    [initialized |-> FALSE, id |-> None, cash_balance |-> 0, event_count |-> 0]

AccountStateEvent(account_id, cash_balance) ==
    [kind |-> "AccountStateEvent", account_id |-> account_id,
     cash_balance |-> cash_balance]

AccountStateEvents ==
    {AccountStateEvent(a, b) : a \in AccountIds, b \in Balances}

\* Account.apply(event): the first applied event initializes the account
\* with the event's account id; every applied event is logged and its
\* balances become the account's.
account_apply(a, event) ==
    [a EXCEPT !.initialized = TRUE,
              !.id = IF a.initialized THEN @ ELSE event.account_id,
              !.cash_balance = event.cash_balance,
              !.event_count = @ + 1]

\* ------------------------------------------------------------------ engine
\* What one call of handle_event can change: the database, the engine's
\* event_count, the analyzer and the strategies it calls.
\* `dispatched` counts the events _handle_event passes on to a handler,
\* `outcome` says how the handler of the received event ended ("ok",
\* "dropped" after an error log, "raised" on an exception), `order_id` is
\* the order the received event names (0: none), and `observed` keeps what the
\* database holds for that order at each strategy.handle_event call.
World == [db |-> db, event_count |-> event_count, returns |-> returns,
          closed_by_fill |-> closed_by_fill,
          delivered |-> <<>>, dispatched |-> 0, outcome |-> "ok",
          order_id |-> 0, observed |-> <<>>]

\* What a strategy finds in the database for an order and its position
\* when it looks them up.
View(d, order_id) ==
    IF order_id \notin DOMAIN d.cached_orders THEN [order |-> None]
    ELSE LET position_id == IF order_id \in DOMAIN d.index_order_position
                            THEN d.index_order_position[order_id] ELSE None
         IN  [order |-> d.cached_orders[order_id],
              order_working |-> order_id \in d.index_orders_working,
              order_completed |-> order_id \in d.index_orders_completed,
              position_stored |-> position_id \in DOMAIN d.cached_positions,
              position |-> IF position_id \in DOMAIN d.cached_positions
                           THEN d.cached_positions[position_id] ELSE None,
              position_open |-> position_id \in d.index_positions_open,
              position_closed |-> position_id \in d.index_positions_closed]

send_to_strategy(w, kind, strategy_id) ==
    IF strategy_id \in registered_strategies
    THEN [w EXCEPT !.delivered = Append(@, <<strategy_id, kind>>),
                   !.observed = Append(@, View(w.db, w.order_id))]
    ELSE w

handle_position_event(w, event) ==
    LET entered == [w EXCEPT !.dispatched = @ + 1]
        reported == IF event.kind = "PositionClosed"
                    THEN [entered EXCEPT !.returns[event.position_id] = @ + 1]
                    ELSE entered
    IN  send_to_strategy(reported, event.kind, event.strategy_id)

\* Fault injection for _handle_event: a position event is dispatched and
\* not counted.
handle_event_position_uncounted(w, event) ==
    handle_position_event(w, event)

\* Fault injection for _handle_position_event: handling a position event
\* hands the engine the same event once more.
handle_event_position_again(w, event) ==
    handle_position_event(
        [handle_position_event([w EXCEPT !.event_count = @ + 1], event)
            EXCEPT !.event_count = @ + 1], event)

\* _handle_event for a position event: counted, then dispatched.
handle_event_position(w, event) ==
    handle_position_event([w EXCEPT !.event_count = @ + 1], event)

position_opened(w, position, strategy_id, event) ==
    handle_event_position(send_to_strategy(w, event.kind, strategy_id),
                          PositionEvent("PositionOpened", position.id, strategy_id))

position_modified(w, position, strategy_id, event) ==
    handle_event_position(send_to_strategy(w, event.kind, strategy_id),
                          PositionEvent("PositionModified", position.id, strategy_id))

\* Fault injection for _position_closed: the position event is handled and
\* the fill is never sent to the strategy.
position_closed_fill_unsent(w, position, strategy_id, event) ==
    handle_event_position(w, PositionEvent("PositionClosed", position.id, strategy_id))

position_closed(w, position, strategy_id, event) ==
    handle_event_position(send_to_strategy(w, event.kind, strategy_id),
                          PositionEvent("PositionClosed", position.id, strategy_id))

handle_order_fill(w, event, strategy_id) ==
    LET position_id == get_position_id(w.db, event.order_id)
        side == w.db.cached_orders[event.order_id].side
    IN  IF position_id = None THEN [w EXCEPT !.outcome = "dropped"]
        ELSE IF position_id \notin DOMAIN w.db.cached_positions
        THEN LET position == Position(position_id, side, event)
                 added == [w EXCEPT !.db = add_position(@, position, strategy_id)]
             IN  position_opened(added, position, strategy_id, event)
        ELSE LET position == position_apply(w.db.cached_positions[position_id],
                                            side, event)
                 applied == [w EXCEPT !.db.cached_positions[position_id] = position]
                 updated == [applied EXCEPT !.db = update_position(@, position)]
             IN  IF position.is_closed
                 THEN position_closed([updated EXCEPT !.closed_by_fill = @ \cup {position_id}],
                                      position, strategy_id, event)
                 ELSE position_modified(updated, position, strategy_id, event)

\* Fault injection for _handle_order_event: the event is applied to the
\* order twice.
handle_order_event_twice(w, event) ==
    LET entered == [w EXCEPT !.dispatched = @ + 1, !.order_id = event.order_id]
    IN  IF event.order_id \notin DOMAIN w.db.cached_orders
        THEN [entered EXCEPT !.outcome = "dropped"]
        ELSE IF ~apply_accepts(w.db.cached_orders[event.order_id], event)
        THEN [entered EXCEPT !.outcome = "raised"]
        ELSE LET order == apply(apply(w.db.cached_orders[event.order_id], event), event)
                 applied == [entered EXCEPT !.db.cached_orders[event.order_id] = order]
             IN  [applied EXCEPT !.db = update_order(@, order)]

\* Fault injection for _handle_order_event: an event for an order the
\* database does not hold creates the order instead of being dropped.
handle_order_event_phantom(w, event) ==
    LET entered == [w EXCEPT !.dispatched = @ + 1, !.order_id = event.order_id]
        order == Order(event.order_id, "BUY", event.quantity)
    IN  IF event.order_id \notin DOMAIN w.db.cached_orders
        THEN [entered EXCEPT !.db.cached_orders = Put(@, order.id, order),
                             !.outcome = "dropped"]
        ELSE entered

\* Fault injection for _handle_order_event: a failure of order.apply does
\* not end the handling, the event goes on to update_order and to the
\* strategy.
handle_order_event_unchecked(w, event) ==
    LET entered == [w EXCEPT !.dispatched = @ + 1, !.order_id = event.order_id]
    IN  IF event.order_id \notin DOMAIN w.db.cached_orders
        THEN [entered EXCEPT !.outcome = "dropped"]
    ELSE LET order == apply(w.db.cached_orders[event.order_id], event)
             applied == [entered EXCEPT !.db.cached_orders[event.order_id] = order]
             updated == [applied EXCEPT !.db = update_order(@, order)]
             strategy_id == get_strategy_for_order(updated.db, event.order_id)
         IN  IF strategy_id = None THEN [updated EXCEPT !.outcome = "dropped"]
             ELSE IF event.kind = "OrderFill"
             THEN handle_order_fill(updated, event, strategy_id)
             ELSE send_to_strategy(updated, event.kind, strategy_id)

handle_order_event(w, event) ==
    LET entered == [w EXCEPT !.dispatched = @ + 1, !.order_id = event.order_id]
    IN  IF event.order_id \notin DOMAIN w.db.cached_orders
        THEN [entered EXCEPT !.outcome = "dropped"]
    ELSE IF ~apply_accepts(w.db.cached_orders[event.order_id], event)
        THEN [entered EXCEPT !.outcome = "raised"]
    ELSE LET order == apply(w.db.cached_orders[event.order_id], event)
             applied == [entered EXCEPT !.db.cached_orders[event.order_id] = order]
             updated == [applied EXCEPT !.db = update_order(@, order)]
             strategy_id == get_strategy_for_order(updated.db, event.order_id)
         IN  IF strategy_id = None THEN [updated EXCEPT !.outcome = "dropped"]
             ELSE IF event.kind = "OrderFill"
             THEN handle_order_fill(updated, event, strategy_id)
             ELSE send_to_strategy(updated, event.kind, strategy_id)

\* _handle_event for an order event: counted, then dispatched.
handle_event_order(w, event) ==
    handle_order_event([w EXCEPT !.event_count = @ + 1], event)

\* What one call of handle_event with an account event can change.
AccountWorld ==
    [account |-> account, transactions |-> transactions,
     event_count |-> event_count, dispatched |-> 0, outcome |-> "ok",
     observed |-> <<>>]

\* Fault injection for _handle_account_event: the event is applied without
\* looking at its account id.
handle_account_event_unchecked(w, event) ==
    [w EXCEPT !.dispatched = @ + 1,
              !.account = account_apply(@, event),
              !.transactions = @ + 1]

\* database.update_account is a no-op.
handle_account_event(w, event) ==
    LET entered == [w EXCEPT !.dispatched = @ + 1]
    IN  IF ~w.account.initialized \/ w.account.id = event.account_id
        THEN [entered EXCEPT !.account = account_apply(@, event),
                             !.transactions = @ + 1]
        ELSE [entered EXCEPT !.outcome = "dropped"]

\* _handle_event for an account event: counted, then dispatched.
handle_event_account(w, event) ==
    handle_account_event([w EXCEPT !.event_count = @ + 1], event)

Commit(w) ==
    /\ db' = w.db
    /\ event_count' = w.event_count
    /\ returns' = w.returns
    /\ delivered' = w.delivered
    /\ closed_by_fill' = w.closed_by_fill

\* The record of an operation: the public method called, how it ended,
\* and for handle_event the event it was given and what World gathered on
\* the way.
NoEvent == [kind |-> "None"]

Called(op, outcome) ==
    [op |-> op, outcome |-> outcome, event |-> NoEvent, dispatched |-> 0,
     observed |-> <<>>, forwarded |-> FALSE]

Handled(w, event) ==
    [op |-> "handle_event", outcome |-> w.outcome, event |-> event,
     dispatched |-> w.dispatched, observed |-> w.observed, forwarded |-> FALSE]

\* ------------------------------------------------------------------- clock
\* Times are whole seconds from the epoch; NoTime stands for a datetime
\* that is None.  A handler is either a callable or None.
NoTime == -1
MaxTime == 4
MaxInterval == 2
MaxClockSteps == 3
Labels == {"L1", "L2"}
Times == 0..MaxTime
Intervals == 0..MaxInterval
OnTimeEvent == "on_time_event"
Handlers == {OnTimeEvent, None}

TimeEvent(label, timestamp) == [label |-> label, timestamp |-> timestamp]

TimeEventHandler(event, handler) == [event |-> event, handler |-> handler]

\* The Condition checks of Timer.__init__.
Timer_accepts(callback, interval, start_time, stop_time) ==
    /\ callback # None
    /\ interval > 0
    /\ stop_time # NoTime => start_time + interval <= stop_time

\* Timer.__init__; internal is LiveTimer._internal, the scheduling
\* primitive: "none" for a TestTimer, else waiting (started, not yet run),
\* fired (its function has been called) or cancelled.
Timer(label, callback, interval, start_time, stop_time, internal) ==
    [label |-> label, callback |-> callback, interval |-> interval,
     start_time |-> start_time, next_time |-> start_time + interval,
     stop_time |-> stop_time, expired |-> FALSE, internal |-> internal]

\* Timer.iterate_event: the event carries next_time as it was, next_time
\* moves on by the interval, and the timer expires when now has reached
\* stop_time.
iterate_event(timer, now) ==
    [event |-> TimeEvent(timer.label, timer.next_time),
     timer |-> [timer EXCEPT !.next_time = @ + timer.interval,
                             !.expired = IF timer.stop_time # NoTime /\ now >= timer.stop_time
                                         THEN TRUE ELSE @]]

\* TestTimer.advance: one event for each next_time that is <= to_time,
\* until the timer has expired.
RECURSIVE advance(_, _)
advance(timer, to_time) ==
    IF ~timer.expired /\ to_time >= timer.next_time
    THEN LET iterated == iterate_event(timer, timer.next_time)
             rest == advance(iterated.timer, to_time)
         IN  [timer |-> rest.timer, events |-> <<iterated.event>> \o rest.events]
    ELSE [timer |-> timer, events |-> <<>>]

\* Clock.__init__ with TestClock.__init__ (is_test_clock, _time) or
\* LiveClock.__init__; `time` is _time for a test clock and the wall clock
\* for a live one.  timers is the key order of the _timers dict and
\* objects holds the Timer objects by label.
Clock(is_test_clock) ==
    [is_test_clock |-> is_test_clock, time |-> 0,
     timers |-> <<>>, handlers |-> EmptyMap, objects |-> EmptyMap,
     stack |-> <<>>, default_handler |-> None,
     timer_count |-> 0, next_event_time |-> NoTime]

\* dict.pop(label, None) on the key order of _timers.
RECURSIVE Without(_, _)
Without(labels, label) ==
    IF labels = <<>> THEN <<>>
    ELSE IF Head(labels) = label THEN Without(Tail(labels), label)
    ELSE <<Head(labels)>> \o Without(Tail(labels), label)

Labelled(labels) == {labels[i] : i \in DOMAIN labels}

\* Timer objects nothing refers to any more are dropped: the ones left are
\* in _timers, in _stack, or held by a scheduling primitive that can
\* still call back.
collect(c) ==
    LET held == Labelled(c.timers) \cup Labelled(c.stack)
                \cup {l \in DOMAIN c.objects : c.objects[l].internal \in {"waiting", "fired"}}
    IN  [c EXCEPT !.objects = [l \in DOMAIN c.objects \cap held |-> c.objects[l]]]

update_stack(c) ==
    [c EXCEPT !.timer_count = Len(c.timers), !.stack = c.timers]

\* The loop of _update_timing over _stack[1 .. timer_count - 1].
RECURSIVE earliest(_, _, _)
earliest(c, i, next_time) ==
    IF i > c.timer_count THEN next_time
    ELSE LET observed == c.objects[c.stack[i]].next_time
         IN  earliest(c, i + 1, IF observed < next_time THEN observed ELSE next_time)

update_timing(c) ==
    IF c.timer_count = 0 THEN [c EXCEPT !.next_event_time = NoTime]
    ELSE [c EXCEPT !.next_event_time = earliest(c, 2, c.objects[c.stack[1]].next_time)]

add_timer(c, timer, handler) ==
    LET added == [c EXCEPT !.timers = IF timer.label \in Labelled(@) THEN @
                                      ELSE Append(@, timer.label),
                           !.objects = Put(@, timer.label, timer),
                           !.handlers = Put(@, timer.label, handler)]
    IN  update_timing(update_stack(added))

remove_timer(c, label) ==
    LET removed == [c EXCEPT !.timers = Without(@, label),
                             !.handlers = Remove(@, label)]
    IN  update_timing(update_stack(removed))

\* TestClock._get_timer / LiveClock._get_timer: a LiveTimer starts its
\* scheduling primitive in __init__.
get_timer(c, label, callback, interval, start_time, stop_time) ==
    Timer(label, callback, interval, start_time, stop_time,
          IF c.is_test_clock THEN "none" ELSE "waiting")

\* The handler a schedule ends up with: the default one when none is given.
handler_or_default(c, handler) ==
    IF handler = None THEN c.default_handler ELSE handler

\* Every Condition of set_time_alert, those of Timer.__init__ included.
set_time_alert_accepts(c, label, alert_time, handler) ==
    /\ label \notin Labelled(c.timers)
    /\ label \notin DOMAIN c.handlers
    /\ alert_time >= c.time
    /\ handler_or_default(c, handler) # None
    /\ Timer_accepts(handler_or_default(c, handler), alert_time - c.time, c.time, alert_time)

set_time_alert(c, label, alert_time, handler) ==
    IF ~set_time_alert_accepts(c, label, alert_time, handler) THEN c
    ELSE LET callback == handler_or_default(c, handler)
         IN  add_timer(c, get_timer(c, label, callback, alert_time - c.time, c.time, alert_time),
                       callback)

\* start_time None means the timer starts now.
start_or_now(c, start_time) == IF start_time = NoTime THEN c.time ELSE start_time

\* Every Condition of set_timer, those of Timer.__init__ included.
set_timer_accepts(c, label, interval, start_time, stop_time, handler) ==
    /\ label \notin Labelled(c.timers)
    /\ label \notin DOMAIN c.handlers
    /\ interval > 0
    /\ handler_or_default(c, handler) # None
    /\ stop_time # NoTime =>
          /\ stop_time > c.time
          /\ start_or_now(c, start_time) + interval <= stop_time
    /\ Timer_accepts(handler_or_default(c, handler), interval,
                     start_or_now(c, start_time), stop_time)

set_timer(c, label, interval, start_time, stop_time, handler) ==
    IF ~set_timer_accepts(c, label, interval, start_time, stop_time, handler) THEN c
    ELSE LET callback == handler_or_default(c, handler)
         IN  add_timer(c, get_timer(c, label, callback, interval,
                                    start_or_now(c, start_time), stop_time),
                       callback)

\* TestTimer.cancel / LiveTimer.cancel
cancel(timer) ==
    IF timer.internal = "none" THEN [timer EXCEPT !.expired = TRUE]
    ELSE [timer EXCEPT !.internal = IF @ = "waiting" THEN "cancelled" ELSE @]

\* Clock.cancel_timer, first statement: the timer is popped from _timers.
cancel_pop(c, label) == [c EXCEPT !.timers = Without(@, label)]

\* Clock.cancel_timer, timer.cancel() on the popped timer.
cancel_internal(c, label) == [c EXCEPT !.objects[label] = cancel(@)]

\* Clock.cancel_timer, the rest: the handler is popped and _remove_timer
\* brings the stack and the timing up to date.
cancel_finish(c, label) ==
    remove_timer([c EXCEPT !.handlers = Remove(@, label)], label)

\* Clock.cancel_timer as one uninterrupted call: an unknown label is only
\* logged.
cancel_timer(c, label) ==
    IF label \notin Labelled(c.timers) THEN c
    ELSE cancel_finish(cancel_internal(cancel_pop(c, label), label), label)

\* Clock.cancel_all_timers: cancel_timer for each of get_timer_labels().
RECURSIVE cancel_each(_, _)
cancel_each(c, labels) ==
    IF labels = <<>> THEN c
    ELSE cancel_each(cancel_timer(c, Head(labels)), Tail(labels))

cancel_all_timers(c) == cancel_each(c, c.timers)

\* The first loop of advance_time: each timer of the stack in turn is
\* advanced and its events are appended with the timer's callback.
RECURSIVE iterate_timers(_, _, _)
iterate_timers(c, labels, to_time) ==
    IF labels = <<>> THEN [clock |-> c, events |-> <<>>]
    ELSE LET advanced == advance(c.objects[Head(labels)], to_time)
             callback == c.objects[Head(labels)].callback
             rest == iterate_timers([c EXCEPT !.objects[Head(labels)] = advanced.timer],
                                    Tail(labels), to_time)
         IN  [clock |-> rest.clock,
              events |-> [i \in DOMAIN advanced.events |->
                             TimeEventHandler(advanced.events[i], callback)]
                         \o rest.events]

\* The second loop of advance_time: expired timers are removed.
RECURSIVE remove_expired(_, _)
remove_expired(c, labels) ==
    IF labels = <<>> THEN c
    ELSE remove_expired(IF c.objects[Head(labels)].expired
                        THEN remove_timer(c, Head(labels)) ELSE c,
                        Tail(labels))

\* Fault injection for advance_time: the closing _update_timing is left out.
advance_time_stale_timing(c, to_time) ==
    IF c.timer_count = 0 \/ to_time < c.next_event_time
    THEN [clock |-> c, events |-> <<>>]
    ELSE LET iterated == iterate_timers(c, c.stack, to_time)
             remaining == remove_expired(iterated.clock, c.stack)
         IN  [clock |-> [remaining EXCEPT !.time = to_time], events |-> iterated.events]

\* TestClock.advance_time: the clock it leaves and the list it returns.
advance_time(c, to_time) ==
    IF c.timer_count = 0 \/ to_time < c.next_event_time
    THEN [clock |-> c, events |-> <<>>]
    ELSE LET iterated == iterate_timers(c, c.stack, to_time)
             remaining == remove_expired(iterated.clock, c.stack)
         IN  [clock |-> [update_timing(remaining) EXCEPT !.time = to_time],
              events |-> iterated.events]

\* LiveClock._raise_time_event up to the event: the scheduling primitive
\* has called back, the clock reads the wall clock and iterates the timer.
fire_iterate(c, label) ==
    LET iterated == iterate_event(c.objects[label], c.time)
    IN  [clock |-> [c EXCEPT !.objects[label] = [iterated.timer EXCEPT !.internal = "fired"]],
         event |-> iterated.event, now |-> c.time]

\* LiveClock._handle_time_event: the handler registered for the label, if
\* there is one, is called with the event.
handle_time_event(c, event) ==
    IF event.label \in DOMAIN c.handlers
    THEN <<TimeEventHandler(event, c.handlers[event.label])>>
    ELSE <<>>

\* LiveClock._raise_time_event after the handler: an expired timer is
\* removed, any other is started again (LiveTimer.repeat).
fire_finish(c, timer) ==
    IF c.objects[timer].expired
    THEN remove_timer([c EXCEPT !.objects[timer].internal = "done"], c.objects[timer].label)
    ELSE update_timing([c EXCEPT !.objects[timer].internal = "waiting"])

\* LiveClock._raise_time_event as one uninterrupted call.
raise_time_event(c, label) ==
    LET iterated == fire_iterate(c, label)
    IN  [clock |-> fire_finish(iterated.clock, label),
         events |-> handle_time_event(iterated.clock, iterated.event)]

\* A Timer object is known by its label as long as no other timer has
\* taken the label; the object of a cancelled timer that a scheduling
\* primitive still holds when set_timer gives its label to a new Timer is
\* known as Cancelled(label) from then on.  Its label field stays the same.
Cancelled(label) == IF label = "L1" THEN "cancelled L1" ELSE "cancelled L2"

CancelledTimers == {Cancelled(label) : label \in Labels}

relocate(c, label) ==
    IF label \notin DOMAIN c.objects THEN c
    ELSE [c EXCEPT !.objects = Put(Remove(@, label), Cancelled(label), c.objects[label])]

\* The handler given to the second timer of a label.
OnNewTimer == "on_new_timer"

\* What clock_last records: the operation, its arguments, the clock's time
\* when it was called, whether it returned or raised, and the
\* (event, handler) pairs it returned or dispatched.
ClockDid(op, outcome, label, time, now, events) ==
    [op |-> op, outcome |-> outcome, label |-> label, time |-> time, now |-> now,
     events |-> events]

\* No time event is at hand.
NoTimeEvent == TimeEvent(None, NoTime)

\* Neither thread of a live clock is inside a call.  caller and scheduler
\* are the positions of the caller's thread in cancel_timer and of the
\* scheduler thread in _raise_time_event, label and event their local
\* variables; returned holds the labels a cancel_timer call has found and
\* returned for, and handled counts the handler calls made since.
ThreadsIdle ==
    [caller |-> "idle", label |-> None, scheduler |-> "idle", timer |-> None,
     event |-> NoTimeEvent, returned |-> {}, handled |-> 0]

\* No clock operation has been called yet.
ClockIdle ==
    /\ clock = Clock(TRUE)
    /\ clock_last = ClockDid("__init__", "ok", None, NoTime, 0, <<>>)
    /\ threads = ThreadsIdle

\* ----------------------------------------------------------------- actions
Sides == {"BUY", "SELL"}

Init ==
    /\ db = EmptyDb
    /\ registered_strategies = {}
    /\ command_count = 0
    /\ event_count = 0
    /\ returns = [p \in PositionIds |-> 0]
    /\ delivered = <<>>
    /\ ever_registered = {}
    /\ steps = 0
    /\ last = Called("__init__", "ok")
    /\ account = Account
    /\ transactions = 0
    /\ closed_by_fill = {}
    /\ lone_order = Order(1, "BUY", 1)
    /\ ClockIdle

\* Every engine operation counts against the length of the explored sequence.
Step ==
    /\ steps < MaxSteps
    /\ steps' = steps + 1

\* S1 and S2 are interchangeable: S1 is the first strategy id the engine or
\* the database gets to see.
KnownStrategyIds ==
    IF "S1" \in ever_registered \cup {db.index_order_strategy[o] :
                                        o \in DOMAIN db.index_order_strategy}
    THEN StrategyIds ELSE {"S1"}

\* P1 and P2 are interchangeable: P1 is the first position id the engine,
\* the database or the analyzer gets to see.
KnownPositionIds ==
    IF \/ "P1" \in DOMAIN db.index_position_strategy
       \/ returns["P1"] > 0
       \/ "P1" \in closed_by_fill
    THEN PositionIds ELSE {"P1"}

\* ExecutionEngine.register_strategy: the registry is written before
\* database.add_strategy checks its own set.
RegisterStrategy(strategy_id) ==
    /\ Step
    /\ strategy_id \in KnownStrategyIds
    /\ strategy_id \notin registered_strategies
    /\ registered_strategies' = registered_strategies \cup {strategy_id}
    /\ db' = add_strategy(db, strategy_id)
    /\ ever_registered' = ever_registered \cup {strategy_id}
    /\ delivered' = <<>>
    /\ last' = Called("register_strategy", IF add_strategy_accepts(db, strategy_id) THEN "ok" ELSE "raised")
    /\ UNCHANGED <<command_count, event_count, returns, lone_order, account, transactions, closed_by_fill,
                   clock, clock_last, threads>>

\* ExecutionEngine.deregister_strategy
DeregisterStrategy(strategy_id) ==
    /\ Step
    /\ strategy_id \in registered_strategies
    /\ registered_strategies' = registered_strategies \ {strategy_id}
    /\ delivered' = <<>>
    /\ last' = Called("deregister_strategy", "ok")
    /\ UNCHANGED <<db, command_count, event_count, returns, ever_registered, lone_order, account, transactions, closed_by_fill,
                   clock, clock_last, threads>>

\* InMemoryExecutionDatabase.delete_strategy
DeleteStrategy(strategy_id) ==
    /\ Step
    /\ delete_strategy_accepts(db, strategy_id)
    /\ db' = delete_strategy(db, strategy_id)
    /\ delivered' = <<>>
    /\ last' = Called("delete_strategy", "ok")
    /\ UNCHANGED <<registered_strategies, command_count, event_count, returns,
                   ever_registered, lone_order, account, transactions, closed_by_fill,
                   clock, clock_last, threads>>

\* InMemoryExecutionDatabase.get_position_open_ids: the open partition,
\* cut down to the strategy's positions when a strategy is given (None
\* for no filter).
get_position_open_ids(d, strategy_id) ==
    IF strategy_id = None THEN d.index_positions_open
    ELSE IF strategy_id \notin DOMAIN d.index_strategy_positions THEN {}
    ELSE d.index_positions_open \cap d.index_strategy_positions[strategy_id]

count_positions_open(d, strategy_id) ==
    Cardinality(get_position_open_ids(d, strategy_id))

is_strategy_flat(d, strategy_id) == count_positions_open(d, strategy_id) = 0

is_flat(d) == count_positions_open(d, None) = 0

\* ExecutionEngine.reset
Reset ==
    /\ Step
    /\ db' = reset(db)
    /\ delivered' = <<>>
    /\ last' = Called("reset", "ok")
    /\ UNCHANGED <<registered_strategies, command_count, event_count, returns,
                   ever_registered, lone_order, account, transactions, closed_by_fill,
                   clock, clock_last, threads>>

\* What the strategies put into a command.  Order ids come from the
\* factory's counter, so an id is the next unused one or one already
\* submitted, and a submitted id names the order it was issued for;
\* BUY/SELL and P1/P2 are interchangeable, so the first order is a BUY and
\* P1 is the first position id used.
CommandInput(order_id, side, quantity, strategy_id, position_id) ==
    /\ order_id <= Cardinality(DOMAIN db.cached_orders) + 1
    /\ strategy_id \in KnownStrategyIds
    /\ <<side, quantity>> \in
         (IF order_id \in DOMAIN db.cached_orders
          THEN {<<db.cached_orders[order_id].side, db.cached_orders[order_id].quantity>>}
          ELSE IF DOMAIN db.cached_orders = {} THEN {"BUY"} \X Quantities
          ELSE Sides \X Quantities)
    /\ position_id \in KnownPositionIds

opposite(side) == IF side = "BUY" THEN "SELL" ELSE "BUY"

\* Fault injection for the SubmitAtomicOrder branch: the take_profit is
\* never added.
add_atomic_order_without_take_profit(d, entry_id, side, quantity, has_take_profit, strategy_id, position_id, propagates) ==
    LET entry == Order(entry_id, side, quantity)
        stop_loss == Order(entry_id + 1, opposite(side), quantity)
    IN  add_order(add_order(d, entry, strategy_id, position_id),
                  stop_loss, strategy_id, position_id)

\* The database after the add_order calls of the SubmitAtomicOrder branch:
\* a raising add_order ends the branch when the exception propagates, and
\* the next add_order still runs when it does not.
add_atomic_order(d, entry_id, side, quantity, has_take_profit, strategy_id, position_id, propagates) ==
    LET entry == Order(entry_id, side, quantity)
        stop_loss == Order(entry_id + 1, opposite(side), quantity)
        take_profit == Order(entry_id + 2, opposite(side), quantity)
        d1 == add_order(d, entry, strategy_id, position_id)
        ok1 == add_order_ok(d, entry, strategy_id, position_id)
        d2 == add_order(d1, stop_loss, strategy_id, position_id)
        ok2 == add_order_ok(d1, stop_loss, strategy_id, position_id)
        d3 == add_order(d2, take_profit, strategy_id, position_id)
    IN  IF propagates /\ ~ok1 THEN d1
        ELSE IF propagates /\ ~ok2 THEN d2
        ELSE IF has_take_profit THEN d3
        ELSE d2

\* Some add_order call of the SubmitAtomicOrder branch raises.
add_atomic_order_raises(d, entry_id, side, quantity, has_take_profit, strategy_id, position_id) ==
    LET entry == Order(entry_id, side, quantity)
        stop_loss == Order(entry_id + 1, opposite(side), quantity)
        take_profit == Order(entry_id + 2, opposite(side), quantity)
        d1 == add_order(d, entry, strategy_id, position_id)
        d2 == add_order(d1, stop_loss, strategy_id, position_id)
    IN  \/ ~add_order_ok(d, entry, strategy_id, position_id)
        \/ ~add_order_ok(d1, stop_loss, strategy_id, position_id)
        \/ has_take_profit /\ ~add_order_ok(d2, take_profit, strategy_id, position_id)

\* ------------------------------------------------------------ commands
SubmitOrderCommand(order, strategy_id, position_id, propagates) ==
    [kind |-> "SubmitOrder", order |-> order, strategy_id |-> strategy_id,
     position_id |-> position_id, propagates |-> propagates]

\* The atomic order's entry, stop_loss and take_profit are given by the
\* entry's id, side and quantity; `propagates` says whether an exception
\* raised by add_order leaves the branch.
SubmitAtomicOrderCommand(entry_id, side, quantity, has_take_profit, strategy_id, position_id, propagates) ==
    [kind |-> "SubmitAtomicOrder", entry_id |-> entry_id, side |-> side,
     quantity |-> quantity, has_take_profit |-> has_take_profit,
     strategy_id |-> strategy_id, position_id |-> position_id,
     propagates |-> propagates]

\* AccountInquiry, ModifyOrder, CancelOrder: handed to the execution client.
ForwardedCommand == [kind |-> "Forwarded"]

\* What one call of execute_command can change, how it ended ("ok", or
\* "raised" when a precondition of add_order failed), and whether the
\* command was handed to the execution client.
Engine ==
    [db |-> db, command_count |-> command_count, outcome |-> "ok", forwarded |-> FALSE]

\* The branches of _execute_command.
carry_out(w, command) ==
    CASE command.kind = "SubmitOrder" ->
            [w EXCEPT !.db = add_order(@, command.order, command.strategy_id,
                                       command.position_id),
                      !.outcome = IF add_order_ok(w.db, command.order,
                                       command.strategy_id, command.position_id)
                                  THEN "ok" ELSE "raised",
                      !.forwarded = \/ ~command.propagates
                                    \/ add_order_ok(w.db, command.order,
                                           command.strategy_id, command.position_id)]
      [] command.kind = "SubmitAtomicOrder" ->
            [w EXCEPT !.db = add_atomic_order(@, command.entry_id,
                          command.side, command.quantity, command.has_take_profit,
                          command.strategy_id, command.position_id, command.propagates),
                      !.outcome = IF add_atomic_order_raises(w.db, command.entry_id,
                                       command.side, command.quantity,
                                       command.has_take_profit, command.strategy_id,
                                       command.position_id)
                                  THEN "raised" ELSE "ok",
                      !.forwarded = \/ ~command.propagates
                                    \/ ~add_atomic_order_raises(w.db, command.entry_id,
                                            command.side, command.quantity,
                                            command.has_take_profit, command.strategy_id,
                                            command.position_id)]
      [] OTHER -> [w EXCEPT !.forwarded = TRUE]

\* Fault injection for _execute_command: the command is counted after it
\* was carried out, and only if nothing was raised.
execute_command_counts_accepted(w, command) ==
    LET done == carry_out(w, command)
    IN  IF done.outcome = "ok" THEN [done EXCEPT !.command_count = @ + 1] ELSE done

\* _execute_command: counted first, then carried out.
execute_command(w, command) ==
    carry_out([w EXCEPT !.command_count = @ + 1], command)

\* execute_command(SubmitOrder).  Whether an exception propagates out of
\* add_order only matters when one is raised.
SubmitOrder(order_id, side, quantity, strategy_id, position_id) ==
    /\ Step
    /\ CommandInput(order_id, side, quantity, strategy_id, position_id)
    /\ \E propagates \in
            (IF add_order_ok(db, Order(order_id, side, quantity), strategy_id, position_id)
             THEN {FALSE} ELSE BOOLEAN) :
       \E w \in {execute_command(Engine, SubmitOrderCommand(
                      Order(order_id, side, quantity), strategy_id, position_id,
                      propagates))} :
          /\ db' = w.db
          /\ command_count' = w.command_count
          /\ last' = [Called("execute_command", w.outcome) EXCEPT !.forwarded = w.forwarded]
    /\ delivered' = <<>>
    /\ UNCHANGED <<registered_strategies, event_count, returns, ever_registered, lone_order, account, transactions, closed_by_fill,
                   clock, clock_last, threads>>

\* execute_command(SubmitAtomicOrder).  Whether an exception propagates out
\* of add_order only matters when one is raised.
SubmitAtomicOrder(entry_id, side, quantity, has_take_profit, strategy_id, position_id, propagates) ==
    /\ Step
    /\ CommandInput(entry_id, side, quantity, strategy_id, position_id)
    /\ entry_id + (IF has_take_profit THEN 2 ELSE 1) \in OrderIds
    /\ propagates \in
         (IF add_atomic_order_raises(db, entry_id, side, quantity, has_take_profit,
                                     strategy_id, position_id)
          THEN BOOLEAN ELSE {FALSE})
    /\ \E w \in {execute_command(Engine, SubmitAtomicOrderCommand(
                      entry_id, side, quantity, has_take_profit, strategy_id,
                      position_id, propagates))} :
          /\ db' = w.db
          /\ command_count' = w.command_count
          /\ last' = [Called("execute_command", w.outcome) EXCEPT !.forwarded = w.forwarded]
    /\ delivered' = <<>>
    /\ UNCHANGED <<registered_strategies, event_count, returns, ever_registered, lone_order, account, transactions, closed_by_fill,
                   clock, clock_last, threads>>

\* execute_command(AccountInquiry | ModifyOrder | CancelOrder): forwarded
ForwardCommand ==
    /\ Step
    /\ \E w \in {execute_command(Engine, ForwardedCommand)} :
          /\ db' = w.db
          /\ command_count' = w.command_count
          /\ last' = [Called("execute_command", w.outcome) EXCEPT !.forwarded = w.forwarded]
    /\ delivered' = <<>>
    /\ UNCHANGED <<registered_strategies, event_count, returns,
                   ever_registered, lone_order, account, transactions, closed_by_fill,
                   clock, clock_last, threads>>

\* The accounts an event for an order may come from: A1 and A2 are
\* interchangeable until the order has an account, so A1 is the first.
EventAccounts(order_id) ==
    IF order_id \notin DOMAIN db.cached_orders THEN {"A1"}
    ELSE IF db.cached_orders[order_id].account_id = None THEN {"A1"}
    ELSE AccountIds

\* The quantities an event for an order may carry: nothing reads the
\* quantity of an event for an order the database does not hold.
EventQuantities(order_id) ==
    IF order_id \in DOMAIN db.cached_orders THEN 0..MaxQty ELSE {0, 1}

\* handle_event(OrderEvent).  Events for orders the engine never saw all
\* take the same path, so one unknown order id stands for them.
HandleOrderEvent(event) ==
    /\ Step
    /\ event.order_id <= Cardinality(DOMAIN db.cached_orders) + 1
    /\ event.account_id \in EventAccounts(event.order_id)
    /\ event.quantity \in EventQuantities(event.order_id)
    /\ \E w \in {handle_event_order(World, event)} :
          Commit(w) /\ last' = Handled(w, event)
    /\ UNCHANGED <<registered_strategies, command_count, ever_registered, lone_order, account, transactions,
                   clock, clock_last, threads>>

\* handle_event(PositionEvent)
HandlePositionEvent(event) ==
    /\ Step
    /\ event.strategy_id \in KnownStrategyIds
    /\ event.position_id \in KnownPositionIds
    /\ \E w \in {handle_event_position(World, event)} :
          Commit(w) /\ last' = Handled(w, event)
    /\ UNCHANGED <<registered_strategies, command_count, ever_registered, lone_order, account, transactions,
                   clock, clock_last, threads>>

\* handle_event(AccountStateEvent) from the execution client
HandleAccountEvent(event) ==
    /\ Step
    /\ \E w \in {handle_event_account(AccountWorld, event)} :
          /\ account' = w.account
          /\ transactions' = w.transactions
          /\ event_count' = w.event_count
          /\ last' = Handled(w, event)
    /\ delivered' = <<>>
    /\ UNCHANGED <<db, registered_strategies, command_count, returns,
                   ever_registered, closed_by_fill, lone_order,
                   clock, clock_last, threads>>

Next ==
    \/ \E s \in StrategyIds : RegisterStrategy(s)
    \/ \E s \in StrategyIds : DeregisterStrategy(s)
    \/ \E s \in StrategyIds : DeleteStrategy(s)
    \/ Reset
    \/ \E o \in OrderIds, side \in Sides, q \in Quantities,
          s \in StrategyIds, p \in PositionIds : SubmitOrder(o, side, q, s, p)
    \/ \E o \in OrderIds, side \in Sides, q \in Quantities, tp \in BOOLEAN,
          s \in StrategyIds, p \in PositionIds, propagates \in BOOLEAN :
            SubmitAtomicOrder(o, side, q, tp, s, p, propagates)
    \/ ForwardCommand
    \/ \E e \in EngineOrderEvents : HandleOrderEvent(e)
    \/ \E e \in PositionEvents : HandlePositionEvent(e)

Spec == Init /\ [][Next]_vars

\* The engine under commands alone.
NextCommands ==
    \/ \E o \in OrderIds, side \in Sides, q \in Quantities,
          s \in StrategyIds, p \in PositionIds : SubmitOrder(o, side, q, s, p)
    \/ \E o \in OrderIds, side \in Sides, q \in Quantities, tp \in BOOLEAN,
          s \in StrategyIds, p \in PositionIds, propagates \in BOOLEAN :
            SubmitAtomicOrder(o, side, q, tp, s, p, propagates)
    \/ ForwardCommand

SpecCommands == Init /\ [][NextCommands]_vars

\* ------------------------------------------------- the Order state machine
\* A free-standing order of any side and quantity, fresh from Order.__init__.
InitOrder ==
    /\ lone_order \in {Order(1, side, q) : side \in Sides, q \in Quantities}
    /\ db = EmptyDb
    /\ registered_strategies = {}
    /\ command_count = 0
    /\ event_count = 0
    /\ returns = [p \in PositionIds |-> 0]
    /\ delivered = <<>>
    /\ ever_registered = {}
    /\ steps = 0
    /\ last = Called("__init__", "ok")
    /\ account = Account
    /\ transactions = 0
    /\ closed_by_fill = {}
    /\ ClockIdle

\* order.apply(event): an event the order refuses leaves it as it was.
ApplyEvent(event) ==
    /\ lone_order.event_count < MaxLog
    /\ lone_order' = apply(lone_order, event)
    /\ last' = [Called("apply", IF apply_accepts(lone_order, event) THEN "ok" ELSE "raised")
                   EXCEPT !.event = event]
    /\ UNCHANGED <<db, registered_strategies, command_count, event_count, returns,
                   delivered, ever_registered, steps, account, transactions, closed_by_fill,
                   clock, clock_last, threads>>

NextOrder == \E e \in OrderEvents : ApplyEvent(e)

SpecOrder == InitOrder /\ [][NextOrder]_vars

\* The engine under account events, with commands, position events and
\* resets in between; the account is independent of the orders.
NextAccount ==
    \/ \E e \in AccountStateEvents : HandleAccountEvent(e)
    \/ \E e \in PositionEvents : HandlePositionEvent(e)
    \/ ForwardCommand
    \/ Reset

SpecAccount == Init /\ [][NextAccount]_vars

\* The engine under fills: strategy S1 is registered and has submitted an
\* atomic order (entry 1 to BUY, stop-loss 2 to SELL) for position P1; the
\* execution client then reports fills, position events arrive, and the
\* strategy may deregister.
InitFills ==
    /\ \E quantity \in Quantities :
          db = add_atomic_order(add_strategy(EmptyDb, "S1"), 1, "BUY", quantity,
                                FALSE, "S1", "P1", FALSE)
    /\ registered_strategies = {"S1"}
    /\ ever_registered = {"S1"}
    /\ command_count = 1
    /\ event_count = 0
    /\ returns = [p \in PositionIds |-> 0]
    /\ delivered = <<>>
    /\ steps = 0
    /\ last = [Called("execute_command", "ok") EXCEPT !.forwarded = TRUE]
    /\ account = Account
    /\ transactions = 0
    /\ closed_by_fill = {}
    /\ lone_order = Order(1, "BUY", 1)
    /\ ClockIdle

NextFills ==
    \/ \E e \in EngineOrderEvents : e.kind = "OrderFill" /\ HandleOrderEvent(e)
    \/ \E e \in PositionEvents : HandlePositionEvent(e)
    \/ \E s \in StrategyIds : DeregisterStrategy(s)

SpecFills == InitFills /\ [][NextFills]_vars

\* The engine under events that carry their sender's timestamps: the state
\* of InitFills, then events of every kind for the entry order, each with any timestamp.
NextLog ==
    \E e \in OrderEventsOf({1}, {"A1"}, {1}), timestamp \in Timestamps :
        steps < MaxLogSteps /\ HandleOrderEvent(At(e, timestamp))

SpecLog == InitFills /\ [][NextLog]_vars

\* ------------------------------------------------------- the clock alone
\* A test clock or a live clock, fresh from its constructor.
InitClock ==
    /\ clock \in {Clock(TRUE), Clock(FALSE)}
    /\ clock_last = ClockDid("__init__", "ok", None, NoTime, 0, <<>>)
    /\ threads = ThreadsIdle
    /\ db = EmptyDb
    /\ registered_strategies = {}
    /\ command_count = 0
    /\ event_count = 0
    /\ returns = [p \in PositionIds |-> 0]
    /\ delivered = <<>>
    /\ ever_registered = {}
    /\ steps = 0
    /\ last = Called("__init__", "ok")
    /\ account = Account
    /\ transactions = 0
    /\ closed_by_fill = {}
    /\ lone_order = Order(1, "BUY", 1)

EngineUntouched ==
    UNCHANGED <<db, registered_strategies, command_count, event_count, returns,
                delivered, ever_registered, last, account, transactions,
                closed_by_fill, lone_order, threads>>

\* Every clock operation counts against the length of the explored sequence.
ClockStep ==
    /\ steps < MaxClockSteps
    /\ steps' = steps + 1

\* Labels are interchangeable: L1 is the first one to be used.
FreshLabels == IF "L1" \in Labelled(clock.timers) THEN Labels ELSE {"L1"}

StartTimes == {NoTime, 0}
StopTimes == {NoTime} \cup Times

SetTimeAlert(label, alert_time, handler) ==
    /\ ClockStep
    /\ clock' = set_time_alert(clock, label, alert_time, handler)
    /\ clock_last' = ClockDid("set_time_alert",
                              IF set_time_alert_accepts(clock, label, alert_time, handler)
                              THEN "ok" ELSE "raised",
                              label, alert_time, clock.time, <<>>)
    /\ EngineUntouched

SetTimer(label, interval, start_time, stop_time, handler) ==
    /\ ClockStep
    /\ clock' = set_timer(clock, label, interval, start_time, stop_time, handler)
    /\ clock_last' = ClockDid("set_timer",
                              IF set_timer_accepts(clock, label, interval, start_time,
                                                   stop_time, handler)
                              THEN "ok" ELSE "raised",
                              label, NoTime, clock.time, <<>>)
    /\ EngineUntouched

CancelTimer(label) ==
    /\ ClockStep
    /\ clock' = collect(cancel_timer(clock, label))
    /\ clock_last' = ClockDid("cancel_timer", "ok", label, NoTime, clock.time, <<>>)
    /\ EngineUntouched

CancelAllTimers ==
    /\ ClockStep
    /\ clock' = collect(cancel_all_timers(clock))
    /\ clock_last' = ClockDid("cancel_all_timers", "ok", None, NoTime, clock.time, <<>>)
    /\ EngineUntouched

\* TestClock.advance_time
AdvanceTime(to_time) ==
    /\ ClockStep
    /\ clock.is_test_clock
    /\ \E advanced \in {advance_time(clock, to_time)} :
          /\ clock' = collect(advanced.clock)
          /\ clock_last' = ClockDid("advance_time", "ok", None, to_time, clock.time,
                                    advanced.events)
    /\ EngineUntouched

\* The wall clock of a live clock moves on.
Tick ==
    /\ ~clock.is_test_clock
    /\ clock.time < MaxTime
    /\ clock' = [clock EXCEPT !.time = @ + 1]
    /\ UNCHANGED clock_last
    /\ UNCHANGED steps
    /\ EngineUntouched

\* A live firing: the scheduling primitive of a timer calls
\* LiveClock._raise_time_event once the wall clock has reached next_time.
Fire(label) ==
    /\ ClockStep
    /\ ~clock.is_test_clock
    /\ label \in DOMAIN clock.objects
    /\ clock.objects[label].internal = "waiting"
    /\ clock.time >= clock.objects[label].next_time
    /\ \E fired \in {raise_time_event(clock, label)} :
          /\ clock' = collect(fired.clock)
          /\ clock_last' = ClockDid("raise_time_event", "ok", label, NoTime, clock.time,
                                    fired.events)
    /\ EngineUntouched

NextClock ==
    \/ \E label \in FreshLabels, alert_time \in Times, handler \in Handlers :
          SetTimeAlert(label, alert_time, handler)
    \/ \E label \in FreshLabels, interval \in Intervals, start_time \in StartTimes,
          stop_time \in StopTimes, handler \in Handlers :
          SetTimer(label, interval, start_time, stop_time, handler)
    \/ \E label \in Labels : CancelTimer(label)
    \/ CancelAllTimers
    \/ \E to_time \in Times : AdvanceTime(to_time)
    \/ Tick
    \/ \E label \in Labels : Fire(label)

SpecClock == InitClock /\ [][NextClock]_vars

\* A test clock constructed with an initial time, under set_time_alert,
\* set_timer and advance_time.
InitialTimes == {0, 2}

InitTestClock ==
    /\ \E initial_time \in InitialTimes : clock = [Clock(TRUE) EXCEPT !.time = initial_time]
    /\ clock_last = ClockDid("__init__", "ok", None, NoTime, 0, <<>>)
    /\ threads = ThreadsIdle
    /\ db = EmptyDb
    /\ registered_strategies = {}
    /\ command_count = 0
    /\ event_count = 0
    /\ returns = [p \in PositionIds |-> 0]
    /\ delivered = <<>>
    /\ ever_registered = {}
    /\ steps = 0
    /\ last = Called("__init__", "ok")
    /\ account = Account
    /\ transactions = 0
    /\ closed_by_fill = {}
    /\ lone_order = Order(1, "BUY", 1)

NextTestClock ==
    \/ \E label \in FreshLabels, alert_time \in Times, handler \in Handlers :
          SetTimeAlert(label, alert_time, handler)
    \/ \E label \in FreshLabels, interval \in Intervals, start_time \in StartTimes,
          stop_time \in StopTimes, handler \in Handlers :
          SetTimer(label, interval, start_time, stop_time, handler)
    \/ \E to_time \in Times : AdvanceTime(to_time)

SpecTestClock == InitTestClock /\ [][NextTestClock]_vars

\* ---------------------------------------------- the live clock's threads
\* A live clock on which set_timer(L1, interval, stop_time=stop, handler)
\* has returned; cancel_timer runs on the caller's thread and each firing
\* on the scheduler thread, one statement at a time.
InitLive ==
    /\ \E interval \in 1..MaxInterval, stop_time \in StopTimes :
          /\ set_timer_accepts(Clock(FALSE), "L1", interval, NoTime, stop_time, OnTimeEvent)
          /\ clock = set_timer(Clock(FALSE), "L1", interval, NoTime, stop_time, OnTimeEvent)
    /\ clock_last = ClockDid("set_timer", "ok", "L1", NoTime, 0, <<>>)
    /\ threads = ThreadsIdle
    /\ db = EmptyDb
    /\ registered_strategies = {}
    /\ command_count = 0
    /\ event_count = 0
    /\ returns = [p \in PositionIds |-> 0]
    /\ delivered = <<>>
    /\ ever_registered = {}
    /\ steps = 0
    /\ last = Called("__init__", "ok")
    /\ account = Account
    /\ transactions = 0
    /\ closed_by_fill = {}
    /\ lone_order = Order(1, "BUY", 1)

ClockOnly ==
    UNCHANGED <<db, registered_strategies, command_count, event_count, returns,
                delivered, ever_registered, last, account, transactions,
                closed_by_fill, lone_order>>

\* The wall clock moves on while the threads run.
LiveTick ==
    /\ clock.time < MaxTime
    /\ clock' = [clock EXCEPT !.time = @ + 1]
    /\ UNCHANGED <<clock_last, threads, steps>>
    /\ ClockOnly

\* cancel_timer(label) is called: the timer is popped from _timers; a
\* label that is not there is logged and the call returns.
CancelCall(label) ==
    /\ ClockStep
    /\ threads.caller = "idle"
    /\ IF label \in Labelled(clock.timers)
       THEN /\ clock' = cancel_pop(clock, label)
            /\ threads' = [threads EXCEPT !.caller = "popped", !.label = label]
            /\ UNCHANGED clock_last
       ELSE /\ clock_last' = ClockDid("cancel_timer", "ok", label, NoTime, clock.time, <<>>)
            /\ UNCHANGED <<clock, threads>>
    /\ ClockOnly

\* timer.cancel()
CancelInternal ==
    /\ threads.caller = "popped"
    /\ clock' = cancel_internal(clock, threads.label)
    /\ threads' = [threads EXCEPT !.caller = "cancelled"]
    /\ UNCHANGED <<clock_last, steps>>
    /\ ClockOnly

\* The handler is popped, _remove_timer runs and cancel_timer returns.
CancelReturn ==
    /\ threads.caller = "cancelled"
    /\ clock' = collect(cancel_finish(clock, threads.label))
    /\ threads' = [threads EXCEPT !.caller = "idle", !.label = None,
                                  !.returned = @ \cup {threads.label},
                                  !.handled = 0]
    /\ clock_last' = ClockDid("cancel_timer", "ok", threads.label, NoTime, clock.time, <<>>)
    /\ UNCHANGED steps
    /\ ClockOnly

\* The scheduling primitive of a timer has waited until next_time, finds
\* itself not cancelled and calls _raise_time_event(timer).
TimerFires(label) ==
    /\ threads.scheduler = "idle"
    /\ label \in DOMAIN clock.objects
    /\ clock.objects[label].internal = "waiting"
    /\ clock.time >= clock.objects[label].next_time
    /\ clock' = [clock EXCEPT !.objects[label].internal = "fired"]
    /\ threads' = [threads EXCEPT !.scheduler = "called", !.timer = label]
    /\ UNCHANGED <<clock_last, steps>>
    /\ ClockOnly

\* now = self.time_now(); event = timer.iterate_event(..., now)
FireIterate ==
    /\ threads.scheduler = "called"
    /\ \E iterated \in {fire_iterate(clock, threads.timer)} :
          /\ clock' = iterated.clock
          /\ threads' = [threads EXCEPT !.scheduler = "iterated", !.event = iterated.event]
    /\ UNCHANGED <<clock_last, steps>>
    /\ ClockOnly

\* self._handle_time_event(event): the handler, if still registered, runs.
FireHandle ==
    /\ threads.scheduler = "iterated"
    /\ \E events \in {handle_time_event(clock, threads.event)} :
          /\ clock_last' = ClockDid("handle_time_event", "ok", threads.timer, NoTime,
                                    clock.time, events)
          /\ threads' = [threads EXCEPT !.scheduler = "handled",
                                        !.handled = IF threads.timer \in threads.returned
                                                    THEN @ + Len(events) ELSE @]
    /\ UNCHANGED <<clock, steps>>
    /\ ClockOnly

\* The rest of _raise_time_event: the timer is removed or started again.
FireReturn ==
    /\ threads.scheduler = "handled"
    /\ clock' = collect(fire_finish(clock, threads.timer))
    /\ threads' = [threads EXCEPT !.scheduler = "idle", !.timer = None,
                                  !.event = NoTimeEvent]
    /\ UNCHANGED <<clock_last, steps>>
    /\ ClockOnly

\* set_timer(label, interval, stop_time=stop, handler) for a label whose
\* cancel_timer has returned, on the caller's thread.
SetTimerAgain(label, interval, stop_time) ==
    /\ ClockStep
    /\ threads.caller = "idle"
    /\ label \in threads.returned
    /\ Cancelled(label) \notin DOMAIN clock.objects
    /\ set_timer_accepts(clock, label, interval, NoTime, stop_time, OnNewTimer)
    /\ clock' = collect(set_timer(relocate(clock, label), label, interval, NoTime,
                                  stop_time, OnNewTimer))
    /\ threads' = [threads EXCEPT
                      !.timer = IF @ = label THEN Cancelled(label) ELSE @,
                      !.returned = (@ \ {label}) \cup
                                   (IF label \in DOMAIN clock.objects
                                    THEN {Cancelled(label)} ELSE {})]
    /\ clock_last' = ClockDid("set_timer", "ok", label, NoTime, clock.time, <<>>)
    /\ ClockOnly

NextLive ==
    \/ LiveTick
    \/ \E label \in Labels : CancelCall(label)
    \/ CancelInternal
    \/ CancelReturn
    \/ \E label \in Labels, interval \in 1..MaxInterval, stop_time \in StopTimes :
          SetTimerAgain(label, interval, stop_time)
    \/ \E label \in Labels \cup CancelledTimers : TimerFires(label)
    \/ FireIterate
    \/ FireHandle
    \/ FireReturn

SpecLive == InitLive /\ [][NextLive]_vars

\* ================================================================== claims
\* Every id a set-valued index holds.
Values(index) == UNION {index[k] : k \in DOMAIN index}

\* Every value a single-valued index holds.
Range(index) == {index[k] : k \in DOMAIN index}

\* C1: after any sequence of commands and events, every order of the store
\* is in orders_working exactly when is_working and in orders_completed
\* exactly when is_completed, never in both; an INITIALIZED order is in
\* neither; and |orders_working| + |orders_completed| <= |orders|.
C1_PartitionsAgreeWithFlags ==
    /\ \A o \in DOMAIN db.cached_orders :
          /\ (o \in db.index_orders_working) <=> db.cached_orders[o].is_working
          /\ (o \in db.index_orders_completed) <=> db.cached_orders[o].is_completed
          /\ ~(o \in db.index_orders_working /\ o \in db.index_orders_completed)
          /\ db.cached_orders[o].state = "INITIALIZED" =>
                o \notin db.index_orders_working \cup db.index_orders_completed
    /\ db.index_orders_working \cap db.index_orders_completed = {}
    /\ Cardinality(db.index_orders_working) + Cardinality(db.index_orders_completed)
          <= Cardinality(db.index_orders)

\* One order is working, another completed and a third still INITIALIZED.
C1_Witness ==
    \E w, c, i \in DOMAIN db.cached_orders :
        /\ db.cached_orders[w].is_working /\ w \in db.index_orders_working
        /\ db.cached_orders[c].is_completed /\ c \in db.index_orders_completed
        /\ db.cached_orders[i].state = "INITIALIZED"

\* C2: a FILLED or OVER_FILLED order is completed and not working, whatever
\* events were applied to it.
C2_FilledIsCompleted ==
    lone_order.state \in {"FILLED", "OVER_FILLED"} =>
        lone_order.is_completed /\ ~lone_order.is_working

\* C3: a PARTIALLY_FILLED order is working, and so in orders_working,
\* whatever its state was when the partial fill was applied.
C3_PartiallyFilledIsWorking ==
    \A o \in DOMAIN db.cached_orders :
        db.cached_orders[o].state = "PARTIALLY_FILLED" =>
            db.cached_orders[o].is_working /\ o \in db.index_orders_working

\* C4: short of a reset of the database, an order id in orders_completed
\* stays there and its order stays completed and not working.
C4_CompletedStays ==
    [][\A o \in db.index_orders_completed :
          \/ db' = reset(db)
          \/ /\ o \in db'.index_orders_completed
             /\ db'.cached_orders[o].is_completed
             /\ ~db'.cached_orders[o].is_working]_vars

\* C5 (as claimed): one fill of the whole quantity Q leaves the order FILLED,
\* and so do two fills whose quantities sum to Q, with filled_quantity = Q
\* and the volume-weighted average of the two fill prices.
C5_FillsSumToQuantity ==
    [][LET fill == lone_order'.last_event
           first == lone_order.last_event
       IN  (lone_order'.event_count = lone_order.event_count + 1
              /\ fill.kind = "OrderFill") =>
             /\ (lone_order.event_count = 1 /\ fill.quantity = lone_order.quantity) =>
                   lone_order'.state = "FILLED"
             /\ (/\ lone_order.event_count = 2
                 /\ first.kind = "OrderFill"
                 /\ first.quantity + fill.quantity = lone_order.quantity) =>
                   /\ lone_order'.state = "FILLED"
                   /\ lone_order'.is_completed
                   /\ lone_order'.filled_quantity = lone_order.quantity
                   /\ lone_order'.average_price * lone_order.quantity =
                         first.quantity * first.price + fill.quantity * fill.price]_vars

\* C5 (amended): right after a fill is applied, the order's filled_quantity
\* and average_price are the ones the fill event carries, and the order is
\* FILLED, completed and not working exactly when that filled_quantity
\* equals the order's quantity; below it the order is PARTIALLY_FILLED.
C5_FillAssignsEventValues ==
    lone_order.last_event.kind = "OrderFill" =>
        /\ lone_order.filled_quantity = lone_order.last_event.quantity
        /\ lone_order.average_price = lone_order.last_event.price
        /\ (lone_order.state = "FILLED") <=>
              (lone_order.last_event.quantity = lone_order.quantity)
        /\ lone_order.state = "FILLED" =>
              lone_order.is_completed /\ ~lone_order.is_working
        /\ (lone_order.state = "PARTIALLY_FILLED") <=>
              (lone_order.last_event.quantity < lone_order.quantity)

\* A second fill that carries the whole quantity has filled the order.
C5_Witness ==
    /\ lone_order.event_count >= 3
    /\ lone_order.last_event.kind = "OrderFill"
    /\ lone_order.quantity = MaxQty
    /\ lone_order.filled_quantity = lone_order.quantity
    /\ lone_order.state = "FILLED"
\* Every OrderId an index of the database mentions.
IndexedOrderIds ==
    DOMAIN db.index_order_strategy
        \cup DOMAIN db.index_order_position
        \cup Values(db.index_position_orders)
        \cup Values(db.index_strategy_orders)
        \cup db.index_orders
        \cup db.index_orders_working
        \cup db.index_orders_completed

\* C6: after any sequence of commands and events, every OrderId in an index
\* (order->strategy, order->position, position->orders, strategy->orders,
\* orders, orders_working, orders_completed) is a key of the orders store.
C6_IndexedOrdersAreStored == IndexedOrderIds \subseteq DOMAIN db.cached_orders

\* Two orders are indexed under a strategy and a position, one of them in a
\* partition.
C6_Witness ==
    /\ Cardinality(Values(db.index_position_orders)) >= 2
    /\ Cardinality(Values(db.index_strategy_orders)) >= 2
    /\ db.index_orders_working \cup db.index_orders_completed # {}

\* The PositionIds the indexes written by add_order mention.
OrderIndexedPositionIds ==
    Range(db.index_order_position)
        \cup DOMAIN db.index_position_strategy
        \cup DOMAIN db.index_position_orders
        \cup Values(db.index_strategy_positions)

\* The PositionIds the indexes written by add_position and update_position
\* mention.
PositionIndexedPositionIds ==
    db.index_positions \cup db.index_positions_open \cup db.index_positions_closed

\* C7 (as claimed): every PositionId in any index (order->position,
\* position->strategy, position->orders, strategy->positions,
\* positions_open, positions_closed) is a key of the positions store.
C7_IndexedPositionsAreStored ==
    OrderIndexedPositionIds \cup PositionIndexedPositionIds
        \subseteq DOMAIN db.cached_positions

\* C7 (amended): every PositionId in positions, positions_open or
\* positions_closed is a key of the positions store; the indexes add_order
\* writes name a PositionId before its position exists.
C7_PositionIndexesAreStored ==
    PositionIndexedPositionIds \subseteq DOMAIN db.cached_positions

\* One position is closed, and an order names a position not yet created.
C7_Witness ==
    /\ db.index_positions_closed # {}
    /\ OrderIndexedPositionIds \ DOMAIN db.cached_positions # {}

\* C8: for every order o with order->position[o] = p, position->strategy[p]
\* is order->strategy[o], also after add_order calls that fail on a strategy
\* mismatch.
C8_PositionStrategyIsOrderStrategy ==
    \A o \in DOMAIN db.index_order_position :
        LET p == db.index_order_position[o]
        IN  /\ o \in DOMAIN db.index_order_strategy
            /\ p \in DOMAIN db.index_position_strategy
            /\ db.index_position_strategy[p] = db.index_order_strategy[o]

\* C9: every (order_id, strategy_id) pair of order->strategy has its order
\* in the orders store and a strategy that is registered or was registered
\* before, never one that was never registered.
C9_OrderStrategyWasRegistered ==
    \A o \in DOMAIN db.index_order_strategy :
        /\ o \in DOMAIN db.cached_orders
        /\ db.index_order_strategy[o] \in registered_strategies \cup ever_registered

\* C10: the analyzer is handed the realized return of a position at most
\* once, whether its PositionClosed events come from fills or from the wire.
C10_ReturnReportedOnce == \A p \in PositionIds : returns[p] <= 1

\* C11 (as stated): every call of handle_event adds exactly one to
\* event_count, whether the event was processed or dropped, and a fill that
\* yields a derived position event still counts as one.
C11_ReceivedEventCountsOnce ==
    [][last'.op = "handle_event" => event_count' = event_count + 1]_vars

\* C11: event_count counts every event that passes _handle_event: a call of
\* handle_event adds one for the received event, processed or dropped, and
\* one more exactly when the received event is a fill whose derived position
\* event the engine hands to itself; nothing else changes event_count.
C11_EventCountCountsDispatched ==
    [][/\ last'.op = "handle_event" =>
            /\ event_count' = event_count + last'.dispatched
            /\ last'.dispatched \in {1, 2}
            /\ last'.dispatched = 2 <=> db'.cached_positions # db.cached_positions
       /\ last'.op # "handle_event" => event_count' = event_count]_vars

\* C11: a dropped event and a processed fill have been received.
C11_Witness ==
    /\ last.op = "handle_event"
    /\ last.dispatched = 2
    /\ event_count = 3

\* C12 (as stated): command_count increases by one for a command that
\* execute_command carries out and not at all for one that fails its
\* precondition.
C12_FailedCommandNotCounted ==
    [][last'.op = "execute_command" =>
          command_count' = command_count + (IF last'.outcome = "ok" THEN 1 ELSE 0)]_vars

\* C12: command_count increases by exactly one for every command given to
\* execute_command, one that fails its precondition included, and by
\* nothing else.
C12_EveryCommandCounted ==
    [][/\ last'.op = "execute_command" => command_count' = command_count + 1
       /\ last'.op # "execute_command" => command_count' = command_count]_vars

\* C12: a SubmitOrder with an order id already in the database has been
\* executed after an accepted one.
C12_Witness ==
    /\ last.op = "execute_command"
    /\ last.outcome = "raised"
    /\ command_count = 2
    /\ Cardinality(DOMAIN db.cached_orders) = 1

\* The step is a call of handle_event with an order event.
OrderEventKinds == PlainOrderKinds \cup {"OrderModified", "OrderFill"}

ReceivedOrderEvent ==
    last'.op = "handle_event" /\ last'.event.kind \in OrderEventKinds

\* C13: an order event whose order id the database does not hold is
\* dropped: the database, the reported returns, the registry and
\* command_count stay as they were, no strategy receives anything, no
\* exception leaves handle_event, and event_count increases by one.
C13_UnknownOrderEventOnlyCounted ==
    [][(ReceivedOrderEvent /\ last'.event.order_id \notin DOMAIN db.cached_orders) =>
          /\ db' = db
          /\ returns' = returns
          /\ delivered' = <<>>
          /\ registered_strategies' = registered_strategies
          /\ command_count' = command_count
          /\ account' = account
          /\ transactions' = transactions
          /\ event_count' = event_count + 1
          /\ last'.outcome = "dropped"]_vars

\* C13: with order 1 in the database and untouched, the one event received
\* so far named another order.
C13_Witness ==
    /\ last.op = "handle_event"
    /\ last.outcome = "dropped"
    /\ event_count = 1
    /\ DOMAIN db.cached_orders = {1}
    /\ db.cached_orders[1].event_count = 1
    /\ db.index_orders = {1}

\* C14: an AccountStateEvent is applied to the account (which takes the
\* event's id when it had none, its balance, and logs it) and handed to the
\* portfolio when the account is not initialized or has the event's account
\* id; otherwise it is dropped, the account stays as it was and the
\* portfolio is not called.
C14_AccountEventAppliedIffForAccount ==
    [][(last'.op = "handle_event" /\ last'.event.kind = "AccountStateEvent") =>
          LET e == last'.event
          IN  IF ~account.initialized \/ e.account_id = account.id
              THEN /\ account'.initialized
                   /\ account'.id = e.account_id
                   /\ account'.cash_balance = e.cash_balance
                   /\ account'.event_count = account.event_count + 1
                   /\ transactions' = transactions + 1
                   /\ last'.outcome = "ok"
              ELSE /\ account' = account
                   /\ transactions' = transactions
                   /\ last'.outcome = "dropped"]_vars

\* C14: the account was initialized by an event of one account id and an
\* event of another account id has just been dropped.
C14_Witness ==
    /\ last.op = "handle_event"
    /\ last.outcome = "dropped"
    /\ account.initialized
    /\ account.event_count = 2
    /\ transactions = 2

\* The step is a call of handle_event with a fill.
ReceivedFill ==
    last'.op = "handle_event" /\ last'.event.kind = "OrderFill"

\* The order is in the database and the strategy it belongs to is
\* registered with the engine.
KnownWithRegisteredStrategy(order_id) ==
    /\ order_id \in DOMAIN db.cached_orders
    /\ get_strategy_for_order(db, order_id) \in registered_strategies

\* What the strategy of the order is handed in the step: the fill, then one
\* position event, PositionOpened for a position the database did not hold
\* (now stored, indexed and open), else PositionClosed if the position is
\* closed after the fill, else PositionModified.
FillThenPositionEvent(e) ==
    LET strategy_id == get_strategy_for_order(db, e.order_id)
        position_id == get_position_id(db, e.order_id)
        derived == IF position_id \notin DOMAIN db.cached_positions
                   THEN "PositionOpened"
                   ELSE IF db'.cached_positions[position_id].is_closed
                   THEN "PositionClosed" ELSE "PositionModified"
    IN  /\ delivered' = <<<<strategy_id, "OrderFill">>, <<strategy_id, derived>>>>
        /\ position_id \in DOMAIN db'.cached_positions
        /\ derived = "PositionOpened" =>
               /\ position_id \in db'.index_positions
               /\ position_id \in db'.index_positions_open

\* C15 (as stated): every fill on a known order with a registered owning
\* strategy is delivered once to that strategy, followed by exactly one
\* derived position event.
C15_EveryFillDelivered ==
    [][(ReceivedFill /\ KnownWithRegisteredStrategy(last'.event.order_id)) =>
          FillThenPositionEvent(last'.event)]_vars

\* C15: every fill that a known order with a registered owning strategy
\* accepts is delivered once to that strategy, followed by exactly one
\* derived position event; a fill the order refuses (another account id
\* than the order's) is delivered to no one.
C15_AcceptedFillDelivered ==
    [][(ReceivedFill /\ KnownWithRegisteredStrategy(last'.event.order_id)) =>
          IF apply_accepts(db.cached_orders[last'.event.order_id], last'.event)
          THEN FillThenPositionEvent(last'.event)
          ELSE delivered' = <<>> /\ db' = db]_vars

\* C15: a strategy has been handed a fill and then the PositionClosed
\* derived from it.
C15_Witness ==
    /\ last.op = "handle_event"
    /\ delivered = <<<<"S1", "OrderFill">>, <<"S1", "PositionClosed">>>>
    /\ "S1" \in registered_strategies

\* The order's event log across the step: the event was appended, once and
\* at the end, and the logs of the other orders are as they were.
Appended(e) ==
    /\ db'.cached_orders[e.order_id].event_count =
           db.cached_orders[e.order_id].event_count + 1
    /\ db'.cached_orders[e.order_id].last_event = e
    /\ \A o \in DOMAIN db.cached_orders \ {e.order_id} :
           db'.cached_orders[o] = db.cached_orders[o]

\* No operation other than handle_event touches the log of an order that
\* stays in the database, and handle_event appends at most one event.
LogsOnlyGrowByEvents ==
    \A o \in DOMAIN db.cached_orders \cap DOMAIN db'.cached_orders :
        \/ /\ db'.cached_orders[o].event_count = db.cached_orders[o].event_count
           /\ db'.cached_orders[o].last_event = db.cached_orders[o].last_event
        \/ /\ db'.cached_orders[o].event_count = db.cached_orders[o].event_count + 1
           /\ last'.op = "handle_event"

\* C16 (as stated): every event received for an order in the database is
\* appended to that order's log, in the order of receipt, once.
C16_EveryReceivedEventLogged ==
    [][/\ LogsOnlyGrowByEvents
       /\ (ReceivedOrderEvent /\ last'.event.order_id \in DOMAIN db.cached_orders) =>
             Appended(last'.event)]_vars

\* C16: every event received for an order in the database that the order
\* accepts is appended to that order's log, in the order of receipt, once;
\* an event the order refuses (another account id than the order's) is not
\* logged and leaves every order as it was.
C16_AcceptedEventsLoggedInOrder ==
    [][/\ LogsOnlyGrowByEvents
       /\ (ReceivedOrderEvent /\ last'.event.order_id \in DOMAIN db.cached_orders) =>
             IF apply_accepts(db.cached_orders[last'.event.order_id], last'.event)
             THEN Appended(last'.event)
             ELSE db'.cached_orders = db.cached_orders]_vars

\* C16: order 1 has logged two events after OrderInitialized and a third
\* event received for it was refused.
C16_Witness ==
    /\ last.op = "handle_event"
    /\ last.outcome = "raised"
    /\ event_count = 3
    /\ 1 \in DOMAIN db.cached_orders
    /\ db.cached_orders[1].event_count = 3

\* What the strategy finds when it is handed an event in a call of
\* handle_event with the fill e: the order has the fill as its last event
\* and is in the partition its flags name, the position is stored with the
\* fill applied, and it is in the partition its is_closed flag names.
CoherentView(view, e) ==
    LET position_id == get_position_id(db, e.order_id)
        side == db.cached_orders[e.order_id].side
        before == IF position_id \in DOMAIN db.cached_positions
                  THEN db.cached_positions[position_id].quantity ELSE 0
    IN  /\ view.order.last_event = e
        /\ view.order_working = view.order.is_working
        /\ view.order_completed = view.order.is_completed
        /\ ~(view.order_working /\ view.order_completed)
        /\ view.position_stored
        /\ view.position.quantity = before + signed_quantity(side, e.quantity)
        /\ view.position_open = ~view.position.is_closed
        /\ view.position_closed = view.position.is_closed

\* C17: whenever a strategy is handed a fill or the position event derived
\* from it, the fill has been applied to the order, the order is in the
\* partition its flags name, and the position is in the database with the
\* fill applied and in the partition its is_closed flag names.
C17_StrategySeesCoherentState ==
    [][ReceivedFill =>
          \A i \in DOMAIN last'.observed :
              CoherentView(last'.observed[i], last'.event)]_vars

\* C18: whenever the engine handles a PositionClosed event, and so reports
\* the realized return of its position to the analyzer, a fill applied to
\* that position has closed it before.
C18_PositionClosedFollowsClosingFill ==
    [][\A p \in PositionIds :
          returns'[p] > returns[p] => p \in closed_by_fill']_vars

\* C19: handling the OrderCancelled event of an order in the database (an
\* event the order accepts) leaves the order completed and not working,
\* CANCELLED, its id in orders_completed and not in orders_working, whatever
\* the order was before: just submitted, working or partially filled.
C19_CancelledOrderIsCompleted ==
    [][(/\ ReceivedOrderEvent
        /\ last'.event.kind = "OrderCancelled"
        /\ last'.event.order_id \in DOMAIN db.cached_orders
        /\ apply_accepts(db.cached_orders[last'.event.order_id], last'.event)) =>
          LET order_id == last'.event.order_id
              order == db'.cached_orders[order_id]
          IN  /\ order.is_completed
              /\ ~order.is_working
              /\ order.state = "CANCELLED"
              /\ order_id \in db'.index_orders_completed
              /\ order_id \notin db'.index_orders_working]_vars

\* C19: order 1 was submitted and partially filled, a CancelOrder was sent,
\* and its OrderCancelled event has just been handled.
C19_Witness ==
    /\ last.op = "handle_event"
    /\ last.event.kind = "OrderCancelled"
    /\ last.event.order_id = 1
    /\ command_count = 2
    /\ DOMAIN db.cached_orders = {1}
    /\ db.cached_orders[1].state = "CANCELLED"
    /\ db.cached_orders[1].filled_quantity = 1
    /\ db.cached_orders[1].quantity = 2

\* C20: reset leaves the database as __init__ made it, every store, index,
\* partition and the strategies set empty, so that whatever is done next
\* gives the index contents it gives on a new database, and every
\* strategy, order and position is accepted as new.
C20_ResetGivesInitialDatabase ==
    [][last'.op = "reset" =>
          /\ db' = EmptyDb
          /\ \A s \in StrategyIds : add_strategy_accepts(db', s)
          /\ \A o \in OrderIds, s \in StrategyIds, p \in PositionIds :
                 /\ add_order_ok(db', Order(o, "BUY", 1), s, p)
                 /\ add_order(db', Order(o, "BUY", 1), s, p)
                      = add_order(EmptyDb, Order(o, "BUY", 1), s, p)
          /\ \A p \in PositionIds : add_position_accepts(db', p)]_vars

\* C20: the database held two orders and a position that their fills had
\* opened and closed when it was reset.
C20_Witness ==
    /\ last.op = "reset"
    /\ closed_by_fill = {"P1"}
    /\ command_count = 1
    /\ db = EmptyDb

\* The step applies an event of the given kind to the free-standing order.
Applied(kind) ==
    /\ lone_order'.event_count = lone_order.event_count + 1
    /\ lone_order'.last_event.kind = kind

\* C21 (as stated): an OrderModified event that takes the quantity below
\* the filled quantity puts the order into OVER_FILLED and leaves
\* filled_quantity as it was.
C21_ModifiedBelowFilledIsOverFilled ==
    [][(Applied("OrderModified") /\ lone_order'.quantity < lone_order.filled_quantity) =>
          /\ lone_order'.state = "OVER_FILLED"
          /\ lone_order'.filled_quantity = lone_order.filled_quantity]_vars

\* C21: an OrderModified event overwrites the quantity and leaves the
\* state and filled_quantity as they were, also when the new quantity is
\* below the filled quantity; the order becomes OVER_FILLED when the next
\* fill applied to it carries a filled_quantity above its quantity.
C21_ModifiedKeepsStateUntilNextFill ==
    [][/\ Applied("OrderModified") =>
            /\ lone_order'.quantity = lone_order'.last_event.quantity
            /\ lone_order'.state = lone_order.state
            /\ lone_order'.filled_quantity = lone_order.filled_quantity
       /\ Applied("OrderFill") =>
            /\ lone_order'.quantity = lone_order.quantity
            /\ (lone_order'.state = "OVER_FILLED")
                   = (lone_order'.last_event.quantity > lone_order.quantity)]_vars

\* C21: a filled order of quantity 2 has been modified to quantity 1 and is
\* still FILLED.
C21_Witness ==
    /\ lone_order.last_event.kind = "OrderModified"
    /\ lone_order.quantity < lone_order.filled_quantity
    /\ lone_order.state = "FILLED"

\* C22: positions_open and positions_closed are disjoint and follow each
\* stored position's flag: an id is in positions_closed exactly when the
\* position's is_closed is true and in positions_open exactly when it is
\* false, also after a fill has re-opened a closed position.
C22_PositionPartitionFollowsFlag ==
    /\ db.index_positions_open \cap db.index_positions_closed = {}
    /\ \A position_id \in DOMAIN db.cached_positions :
          LET position == db.cached_positions[position_id]
          IN  /\ (position_id \in db.index_positions_closed) = position.is_closed
              /\ (position_id \in db.index_positions_open) = ~position.is_closed

\* The strategy the position -> strategy index names for a stored position
\* that is open by its own flag.
OwnsOpenPosition(strategy_id) ==
    \E position_id \in DOMAIN db.cached_positions :
        /\ ~db.cached_positions[position_id].is_closed
        /\ position_id \in DOMAIN db.index_position_strategy
        /\ db.index_position_strategy[position_id] = strategy_id

\* C23: is_strategy_flat(s) is true exactly when strategy s owns no
\* position whose is_closed is false, and is_flat() is true exactly when
\* no strategy owns one.
C23_FlatMeansNoOpenPosition ==
    /\ \A s \in StrategyIds : is_strategy_flat(db, s) = ~OwnsOpenPosition(s)
    /\ is_flat(db) = (\A s \in StrategyIds : ~OwnsOpenPosition(s))

\* The step is a call of the given clock operation.
ClockCalled(op) ==
    /\ steps' = steps + 1
    /\ clock_last'.op = op

\* The step produces time events: an advance_time or a live firing.
ProducesTimeEvents == ClockCalled("advance_time") \/ ClockCalled("raise_time_event")

\* C24: every TimeEvent of a timer set with (interval, start, stop) carries
\* a time start + k * interval with k >= 1, and none carries a time later
\* than stop, also when stop - start is not a multiple of the interval.
C24_TimerFiresOnlyUpToStop ==
    [][ProducesTimeEvents =>
          \A i \in DOMAIN clock_last'.events :
              LET event == clock_last'.events[i].event
                  timer == clock.objects[event.label]
              IN  /\ \E k \in 1..(MaxTime + MaxInterval) :
                        event.timestamp = timer.start_time + k * timer.interval
                  /\ timer.stop_time # NoTime => event.timestamp <= timer.stop_time]_vars

\* C25: the list advance_time returns is ordered by event timestamp
\* (non-decreasing) across all timers and alerts, whatever the order in
\* which they were set.
C25_AdvanceTimeReturnsEventsInTimeOrder ==
    clock_last.op = "advance_time" =>
        \A i, j \in DOMAIN clock_last.events :
            i < j => clock_last.events[i].event.timestamp
                        <= clock_last.events[j].event.timestamp

\* C26: after advance_time(t) has returned, time_now() is t in every
\* case, also when no timer is set and when t is earlier than
\* next_event_time and the returned list is empty.
C26_AdvanceTimeSetsTime ==
    [][ClockCalled("advance_time") => clock'.time = clock_last'.time]_vars

\* C27: set_time_alert(label, t, handler) with a fresh label and a
\* callable handler succeeds exactly when t >= time_now(), t = time_now()
\* included, and then schedules one firing at t.
C27_AlertAcceptedFromNowOn ==
    [][\A label \in Labels, t \in Times :
          (SetTimeAlert(label, t, OnTimeEvent) /\ label \notin Labelled(clock.timers)) =>
              /\ (clock_last'.outcome = "ok") = (t >= clock.time)
              /\ clock_last'.outcome = "ok" =>
                    /\ label \in Labelled(clock'.timers)
                    /\ clock'.objects[label].next_time = t
                    /\ clock'.objects[label].stop_time = t]_vars

\* The earliest next_time among the timers the clock holds.
MinNextTime ==
    CHOOSE t \in {clock.objects[l].next_time : l \in Labelled(clock.timers)} :
        \A l \in Labelled(clock.timers) : t <= clock.objects[l].next_time

\* C28: after every clock operation (set_time_alert, set_timer,
\* cancel_timer, cancel_all_timers, advance_time, a live firing)
\* timer_count is the number of timers the clock holds and next_event_time
\* is the minimum of their next_time, None when there is none.
C28_TimerCountAndNextEventTime ==
    /\ clock.timer_count = Cardinality(Labelled(clock.timers))
    /\ clock.next_event_time = IF clock.timers = <<>> THEN NoTime ELSE MinNextTime

\* C28: an advance_time has returned events, removed an expired timer and
\* left another one with a later next_time.
C28_Witness ==
    /\ clock_last.op = "advance_time"
    /\ clock_last.events # <<>>
    /\ clock.timer_count = 1
    /\ clock.next_event_time > clock.time
    /\ Cardinality(DOMAIN clock_last.events) > 1

\* C29: once cancel_timer(label) has returned on a live clock, whatever
\* the interleaving with the timer's callback on the scheduler thread, the
\* handler runs at most once more, the timer is not armed again and it
\* does not reappear among the clock's timers.
C29_CancelSuppressesFurtherFirings ==
    \A label \in threads.returned :
        /\ threads.handled <= 1
        /\ label \notin Labelled(clock.timers)
        /\ label \in DOMAIN clock.objects => clock.objects[label].internal # "waiting"

\* The step receives an order event for an order the database holds.
ReceivedForKnownOrder ==
    ReceivedOrderEvent /\ last'.event.order_id \in DOMAIN db.cached_orders

\* C30: an order event that Order.apply refuses (its account_id differs
\* from the one set on the order) is absorbed: it is counted in
\* event_count, the database with the order, the registry, the returns
\* and command_count stay as they were and no strategy receives it; the
\* next event the order accepts is applied to the order as usual.
C30_FailedEventIsAbsorbed ==
    [][ReceivedForKnownOrder =>
          LET order == db.cached_orders[last'.event.order_id]
          IN  /\ ~apply_accepts(order, last'.event) =>
                    /\ last'.outcome = "raised"
                    /\ event_count' = event_count + 1
                    /\ db' = db
                    /\ delivered' = <<>>
                    /\ returns' = returns
                    /\ registered_strategies' = registered_strategies
                    /\ command_count' = command_count
              /\ (last.outcome = "raised" /\ apply_accepts(order, last'.event)) =>
                    /\ last'.outcome # "raised"
                    /\ event_count' > event_count
                    /\ Appended(last'.event)]_vars

\* C30: an event with another account_id than the order's has just been
\* refused, after the order had taken its account_id from an earlier event.
C30_Witness ==
    /\ last.op = "handle_event"
    /\ last.outcome = "raised"
    /\ last.event.order_id \in DOMAIN db.cached_orders
    /\ db.cached_orders[last.event.order_id].account_id \notin {None, last.event.account_id}
    /\ db.cached_orders[last.event.order_id].event_count = 2

\* The transitions of the order state machine as specified; MODIFIED and
\* PARTIALLY_FILLED are the two working states an order may come back to.
AfterWorking ==
    {"CANCELLED", "EXPIRED", "MODIFIED", "PARTIALLY_FILLED", "FILLED", "OVER_FILLED"}

SpecifiedTransition(from, to) ==
    CASE from = "INITIALIZED" -> to \in {"INVALID", "DENIED", "SUBMITTED"}
      [] from = "SUBMITTED" -> to \in {"REJECTED", "ACCEPTED"}
      [] from = "ACCEPTED" -> to = "WORKING"
      [] from \in {"WORKING", "MODIFIED", "PARTIALLY_FILLED"} -> to \in AfterWorking
      [] OTHER -> FALSE

\* C31: every change of an order's state made by Order.apply is a
\* transition of the specified machine; no event moves an order out of a
\* terminal state or skips a stage.
C31_OnlySpecifiedTransitions ==
    [][lone_order'.state # lone_order.state =>
          SpecifiedTransition(lone_order.state, lone_order'.state)]_vars

\* C32: Order.apply(event) fails exactly when event.order_id is not the
\* order's id or the order's account_id is set and event.account_id
\* differs; a failed apply leaves the order as it was in every field, an
\* accepted event is logged, and an account_id once set never changes.
C32_RefusedEventLeavesOrderUnchanged ==
    [][last'.op = "apply" =>
          LET event == last'.event
              refused == \/ event.order_id # lone_order.id
                         \/ /\ lone_order.account_id # None
                            /\ event.account_id # lone_order.account_id
          IN  /\ (last'.outcome = "raised") = refused
              /\ refused => lone_order' = lone_order
              /\ ~refused =>
                    /\ lone_order'.event_count = lone_order.event_count + 1
                    /\ lone_order'.last_event = event
              /\ lone_order.account_id # None =>
                    lone_order'.account_id = lone_order.account_id]_vars

\* C32: an event that names the order and carries another account_id than
\* the one the order has taken from OrderSubmitted has just been refused.
C32_Witness ==
    /\ last.op = "apply"
    /\ last.outcome = "raised"
    /\ last.event.order_id = lone_order.id
    /\ lone_order.account_id # None
    /\ last.event.account_id # lone_order.account_id
    /\ lone_order.event_count = 3

\* The orders' event logs are append-only across the step: each log that
\* is still there has the log before the step as its prefix.
LogsAppendOnly ==
    \A o \in DOMAIN db.cached_orders \cap DOMAIN db'.cached_orders :
        /\ Len(db'.cached_orders[o].events) >= Len(db.cached_orders[o].events)
        /\ SubSeq(db'.cached_orders[o].events, 1, Len(db.cached_orders[o].events))
              = db.cached_orders[o].events

\* last_event is the last entry of the log and event_count its length.
LogsEndInLastEvent ==
    \A o \in DOMAIN db'.cached_orders :
        LET order == db'.cached_orders[o]
        IN  /\ order.event_count = Len(order.events)
            /\ order.events[Len(order.events)] = order.last_event.timestamp

\* C33: for every order, under events applied through the engine, the
\* event log is append-only, last_event is its last entry, event_count is
\* its length, and the timestamps of the logged events are non-decreasing.
C33_LogAppendOnlyInTimeOrder ==
    [][/\ LogsAppendOnly
       /\ LogsEndInLastEvent
       /\ \A o \in DOMAIN db'.cached_orders :
             \A i, j \in DOMAIN db'.cached_orders[o].events :
                 i < j => db'.cached_orders[o].events[i] <= db'.cached_orders[o].events[j]]_vars

\* The ids of an atomic order's orders: entry, stop_loss, take_profit.
AtomicOrderIds(entry_id, has_take_profit) ==
    IF has_take_profit THEN {entry_id, entry_id + 1, entry_id + 2}
    ELSE {entry_id, entry_id + 1}

\* The order is in the database after the step, indexed with the strategy
\* and the position.
MappedTo(order_id, strategy_id, position_id) ==
    /\ order_id \in DOMAIN db'.cached_orders
    /\ order_id \in db'.index_orders
    /\ order_id \in DOMAIN db'.index_order_strategy
    /\ order_id \in DOMAIN db'.index_order_position
    /\ db'.index_order_strategy[order_id] = strategy_id
    /\ db'.index_order_position[order_id] = position_id

\* ModifyOrder and CancelOrder are handed to the execution client and
\* leave the database as it was.
ForwardedUnchanged == ForwardCommand => db' = db /\ last'.forwarded

C35_HandleEventDepthAtMostTwo ==
    [][last'.op = "handle_event" =>
         /\ last'.dispatched \in {1, 2}
         /\ event_count' = event_count + last'.dispatched
         /\ last'.dispatched = 2 => last'.event.kind = "OrderFill"
         /\ last'.event.kind \in PositionEventKinds => last'.dispatched = 1
         /\ Len(delivered') <= last'.dispatched]_vars

C35_Witness ==
    /\ last.op = "handle_event"
    /\ last.event.kind = "OrderFill"
    /\ last.dispatched = 2
    /\ Len(delivered) = 2
    /\ delivered[2][2] \in PositionEventKinds

\* C36: register_strategy, deregister_strategy and reset keep the strategy
\* ids of the engine's registry equal to the database's strategies set, and
\* no register_strategy of a strategy that is not in the registry fails.
C36_RegistryEqualsDatabase ==
    [][/\ last'.op \in {"register_strategy", "deregister_strategy", "reset"}
       /\ registered_strategies = db.strategies
       => /\ registered_strategies' = db'.strategies
          /\ last'.op = "register_strategy" => last'.outcome = "ok"]_vars

\* order -> position and position -> orders are inverses of each other in
\* the database after the step.
OrderPositionInverse ==
    /\ \A o \in DOMAIN db'.index_order_position :
          /\ db'.index_order_position[o] \in DOMAIN db'.index_position_orders
          /\ o \in db'.index_position_orders[db'.index_order_position[o]]
    /\ \A p \in DOMAIN db'.index_position_orders :
          \A o \in db'.index_position_orders[p] :
              /\ o \in DOMAIN db'.index_order_position
              /\ db'.index_order_position[o] = p

\* C37: a SubmitOrder whose add_order fails, for an order id the database
\* holds or for a strategy_id other than the one the position is indexed
\* with, leaves the database as it was, and order -> position and
\* position -> orders inverses of each other.
C37_FailedAddOrderLeavesDatabase ==
    [][\A o \in OrderIds, side \in Sides, q \in Quantities,
          s \in StrategyIds, p \in PositionIds :
            /\ SubmitOrder(o, side, q, s, p)
            /\ ~add_order_ok(db, Order(o, side, q), s, p)
            => db' = db /\ OrderPositionInverse]_vars

\* C38: advance_time never moves the time of a test clock backwards,
\* whatever timers and time alerts were set before, a timer whose
\* start_time lies in the past included.
C38_AdvanceTimeNeverGoesBack ==
    [][clock_last'.op = "advance_time" => clock'.time >= clock.time]_vars

\* C39: on a live clock, after cancel_timer(L) and a new set_timer with the
\* same label L, the callback of the cancelled timer, late or in flight,
\* calls no handler (the only one registered for L is the new timer's) and
\* leaves the clock's timers and handlers as they are.
C39_CancelledCallbackSparesNewTimer ==
    [][threads.timer \in CancelledTimers /\ threads'.scheduler # threads.scheduler
       => /\ threads.scheduler = "iterated" => clock_last'.events = <<>>
          /\ clock'.timers = clock.timers
          /\ clock'.handlers = clock.handlers]_vars

\* C40: a SubmitAtomicOrder one of whose add_order calls fails leaves none
\* of its orders newly in the database (the database is as it was) and is
\* not forwarded to the execution client.
C40_AtomicOrderAllOrNothing ==
    [][\A o \in OrderIds, side \in Sides, q \in Quantities, tp \in BOOLEAN,
          s \in StrategyIds, p \in PositionIds, propagates \in BOOLEAN :
            /\ SubmitAtomicOrder(o, side, q, tp, s, p, propagates)
            /\ add_atomic_order_raises(db, o, side, q, tp, s, p)
            => db' = db /\ ~last'.forwarded]_vars

====
